---- MODULE Spec2Model ----
(***************************************************************************)
(* A model of pkg/sentry/platform/systrap/subprocess.go: the subprocess    *)
(* pool life cycle (newSubprocess, Release, unregisterContext), the fault  *)
(* cache scan of Unmap, the injected system calls, switchToApp, the stack  *)
(* slots and the control-plane worker of a subprocess.                     *)
(***************************************************************************)
EXTENDS Integers, Sequences, FiniteSets, TLC

\* ------------------------------------------------------------------ bounds

\* Number of subprocess objects that can ever be created.
NumSubprocesses == 2
\* Number of platform contexts.
NumContexts == 2
\* Largest number of owners one subprocess is handed out to at a time.
MaxHolders == 2
\* Highest page number of the modelled user address space.
MaxPage == 2
\* Largest number of times the kernel answers one injected system call with
\* a restart code.
MaxRestarts == 2
\* Largest number of stops other than the trap stop during one system call
\* cycle.
MaxStops == 1
\* Capacity of the stack slot pool of a subprocess (4096 in the source).
maxGuestThreads == 3
\* Largest number of thread requests the workers receive.
MaxThreads == 3
\* Largest number of calls of thread.wait.
MaxWaits == 3
\* Number of OS threads the goroutines are scheduled on.
NumOSThreads == 3
\* Largest number of threads the worker of the traced subprocess clones.
MaxClones == 2
\* Largest number of returns of __syshandler to __export_syshandler.
MaxStubCalls == 2

Subprocs == 1..NumSubprocesses
Contexts == 1..NumContexts
\* "nil" for a *subprocess.
NoSP == 0

\* --------------------------------------------------- address space layout

\* Addresses are page numbers.  The stub occupies [stubStart, stubEnd); the
\* two non-stub regions are [0, stubStart) and [stubEnd, maximumUserAddress).
maximumUserAddress == MaxPage + 1
stubStart == MaxPage - 1
stubEnd == MaxPage
Addrs == 0..(maximumUserAddress - 1)
NonStubAddrs == {a \in Addrs : a < stubStart \/ a >= stubEnd}
\* Width of hostarch.Addr in the model: values are taken modulo AddrModulus.
AddrModulus == maximumUserAddress + 1

\* hostarch.Addr.ToRange: the range [addr, addr+length) and whether the end
\* did not wrap around.
ToRange(addr, length) ==
  LET end == (addr + length) % AddrModulus
  IN  [ar |-> [Start |-> addr, End |-> end], ok |-> end >= addr]

\* hostarch.AddrRange.Contains.
RangeContains(ar, x) == ar.Start <= x /\ x < ar.End

\* --------------------------------------------------------------- variables

VARIABLES
  \* subprocessPool (active / available) and the subprocess objects
  exists,        \* exists[s]: the subprocess object s has been created
  active,        \* globalPool.active
  available,     \* globalPool.available
  holders,       \* number of address-space owners holding s (handed out, Release not yet called)
  released,      \* subprocess.released
  numContexts,   \* subprocess.numContexts
  contexts,      \* subprocess.contexts
  mapped,        \* pages mapped in the traced process of s, stub excluded
  workers,       \* number of request-handling goroutines started for s
  relPc,         \* position of the goroutine started by Release(s)
  \* contexts
  bound,         \* the subprocess context c is registered with (NoSP: none)
  unregPc,       \* position of c inside unregisterContext
  unregRel,      \* the local variable "released" of unregisterContext
  lastFaultSP,   \* context.lastFaultSP
  lastFaultAddr, \* context.lastFaultAddr
  \* the direct caller of Unmap: its position, subprocess and range
  um,
  \* observation: the subprocess whose Unmap scan last cleared c's fault cache
  clearedBy,
  \* observation: "two" once two contexts were bound to s together since it
  \* was last handed out, "reused" when s was then handed out again by reuse
  cycle,
  \* thread.syscallIgnoreInterrupt and thread.syscall on one traced thread
  sysPc,         \* position inside syscallIgnoreInterrupt / syscall
  sysReq,        \* the arguments of syscallIgnoreInterrupt: sysno and one argument
  sysRegs,       \* the local variable regs
  traceeRegs,    \* the registers of the traced thread
  sysStops,      \* stops other than the trap stop seen in this cycle
  sysExecuted,   \* observation: the system calls the traced thread executed
  sysOutcomes,   \* observation: what each call of thread.syscall returned
  sysRet,        \* what syscallIgnoreInterrupt returned
  sysTrace,      \* observation: the ptrace requests of this call of thread.syscall
  \* "" or the message of the panic that aborted the process
  panicked

poolVars == <<exists, active, available, holders, released, numContexts, contexts,
              mapped, workers, relPc, bound, unregPc, unregRel, lastFaultSP,
              lastFaultAddr, um, clearedBy, cycle>>

sysVars == <<sysPc, sysReq, sysRegs, traceeRegs, sysStops, sysExecuted, sysOutcomes,
             sysRet, sysTrace>>

\* switchToApp: the position of the caller, the Message fields the stub wrote
\* (msg.Type, msg.Err), the cached sysThread.fpuStateToMsgOffset, what the
\* call returned, and what the call read when the Message became Done.
VARIABLES swPc, msgType, msgErr, fpuStateToMsgOffset, swRet, swObs

\* The rest of the Message and of the context: msg.State, who wrote msg.Regs
\* last, the fast-path hint, c.signalInfo, whether c.interrupt is enabled,
\* and the path the call took.
VARIABLES msgState, msgRegs, msgFastPath, signalInfo, interruptEnabled, swPath

swVars == <<swPc, msgType, msgErr, fpuStateToMsgOffset, swRet, swObs, msgState, msgRegs,
            msgFastPath, signalInfo, interruptEnabled, swPath>>

\* The stack slots of a subprocess: subprocess.sysmsgStackPool and the slot
\* held by its syscall thread (a set: empty before initSyscallThread).
VARIABLES sysmsgStackPool, syscallThreadStack

stackVars == <<sysmsgStackPool, syscallThreadStack>>

\* The control plane of a subprocess.
VARIABLES
  syscallThreadMu,  \* the goroutines holding subprocess.syscallThreadMu
  stUsers,          \* the goroutines using the syscall thread of s
  nextThread,       \* the next thread to be cloned
  thSub,            \* the subprocess a cloned thread belongs to
  thStack,          \* thread.sysmsgStackID
  thState,          \* "none", "live" or "destroyed"
  ctxThread,        \* context.sysmsgThread (NoThread: nil)
  wPc,              \* position of the worker goroutine of s
  wReq,             \* the requester whose request the worker handles
  wThread,          \* the thread the worker cloned for it
  gPc,              \* position of a requesting goroutine
  gS,               \* the subprocess it called
  gThread,          \* the thread it received
  accepted,         \* the requesters whose requests the worker received
  replied           \* the requesters the worker replied to

ctlVars == <<syscallThreadMu, stUsers, nextThread, thSub, thStack, thState, ctxThread,
             wPc, wReq, wThread, gPc, gS, gThread, accepted, replied>>

\* History: the address-space calls made on a subprocess in a row.  After a
\* MapFile of the range ar on sp it is "mapped"; after the scan of an Unmap
\* of sp that covers ar it is "scanned"; after the munmap of that Unmap it is
\* "unmapped".  A fault recorded in between, or any other Unmap, resets it.
VARIABLES callSeq

\* thread.wait of one tracer on one traced thread.
VARIABLES
  waitPc,        \* "idle", "wait4", "exit" (in unexpectedStubExit), "returned", "killed"
  waitOutcome,   \* the argument of wait: "stopped" or "killed"
  waitRet,       \* the signal wait returned
  waitRetries,   \* interrupted and spurious wake-ups of this call
  waitsDone,     \* calls of wait so far
  waitLog,       \* observation: warnings and register dumps written to the log
  waitCaller     \* "attach" when thread.attach called wait, "other" otherwise

waitVars == <<waitPc, waitOutcome, waitRet, waitRetries, waitsDone, waitLog, waitCaller>>

\* History: the requester whose request the worker was handling when it
\* cloned the thread.
VARIABLES thReq

\* Who traces whom in one subprocess: its worker goroutine, the goroutines
\* that call getSysmsgThread, the OS threads they run on, and the tracer of
\* the syscall thread and of each cloned thread.
VARIABLES
  trOS,       \* the OS thread each goroutine runs on
  trLocked,   \* whether the goroutine is inside LockOSThread / UnlockOSThread
  trTracer,   \* the OS thread that traces each thread, or NoOS
  trBy,       \* history: the goroutine that made itself the tracer
  trWPc,      \* where the worker is in handlePtraceSyscallRequest
  trWReq,     \* the requester whose request the worker handles
  trWNew,     \* the thread the worker cloned
  trPc,       \* where each requester is in getSysmsgThread
  trGot,      \* the thread each requester received
  trNext      \* the next thread the worker clones

traceVars == <<trOS, trLocked, trTracer, trBy, trWPc, trWReq, trWNew, trPc, trGot, trNext>>

\* The stub thread in __export_syshandler, after __syshandler returned.
VARIABLES
  stubPc,         \* the instruction the stub thread is at
  stubType,       \* msg->type
  stubInterrupt,  \* msg->interrupt
  stubRetAddr,    \* msg->ret_addr
  stubEax,        \* the register eax
  stubRip,        \* where the stub thread went on after the jmp
  stubTypeIn,     \* history: msg->type when __syshandler returned
  stubTrace,      \* observation: the instructions of this pass
  stubCalls       \* passes so far

stubVars == <<stubPc, stubType, stubInterrupt, stubRetAddr, stubEax, stubRip, stubTypeIn,
              stubTrace, stubCalls>>

\* The mutexes and channels of one subprocess and the goroutines that use
\* them.
VARIABLES
  lkPc,        \* where each goroutine is
  lkMu,        \* the holder of s.mu
  lkCMu,       \* the holder of each c.mu
  lkStMu,      \* the holder of s.syscallThreadMu
  lkContexts,  \* s.contexts
  lkTodo,      \* the contexts the loop of Unmap has still to visit
  lkCur,       \* the context the loop of Unmap is at
  lkReq        \* the requester whose request the worker handles

lockVars == <<lkPc, lkMu, lkCMu, lkStMu, lkContexts, lkTodo, lkCur, lkReq>>

\* What the actions of one part of the model leave unchanged.
extVars == <<waitVars, traceVars, stubVars, lockVars>>
nonPoolCallVars == <<sysVars, swVars, stackVars, ctlVars, extVars, thReq>>
nonPoolVars == <<nonPoolCallVars, callSeq>>
nonSysVars == <<poolVars, swVars, stackVars, ctlVars, callSeq, extVars, thReq>>
nonSwVars == <<poolVars, sysVars, stackVars, ctlVars, callSeq, extVars, thReq>>
nonCtlReqVars == <<poolVars, sysVars, swVars, callSeq, extVars>>
nonCtlVars == <<nonCtlReqVars, thReq>>
nonWaitVars == <<poolVars, sysVars, swVars, stackVars, ctlVars, callSeq, thReq, traceVars,
                 stubVars, lockVars>>
nonTraceVars == <<poolVars, sysVars, swVars, stackVars, ctlVars, callSeq, thReq, waitVars,
                  stubVars, lockVars>>
nonStubVars == <<poolVars, sysVars, swVars, stackVars, ctlVars, callSeq, thReq, waitVars,
                 traceVars, lockVars>>
nonLockVars == <<poolVars, sysVars, swVars, stackVars, ctlVars, callSeq, thReq, waitVars,
                 traceVars, stubVars>>

vars == <<poolVars, sysVars, swVars, stackVars, ctlVars, callSeq, extVars, thReq, panicked>>

\* ------------------------------------------------------------- the pool

\* subprocessPool.fetchAvailable: the states after handing out sp.
fetchAvailable(sp) ==
  /\ sp \in available
  /\ available' = available \ {sp}
  /\ active' = active \cup {sp}
  /\ released' = [released EXCEPT ![sp] = FALSE]

\* subprocessPool.add.
add(sp) ==
  /\ active' = active \cup {sp}
  /\ available' = available

\* subprocessPool.release: marks s released and moves it to the available
\* set once no context is bound to it.
release(s) ==
  /\ released' = [released EXCEPT ![s] = TRUE]
  /\ IF numContexts[s] = 0
       THEN /\ active' = active \ {s}
            /\ available' = available \cup {s}
       ELSE /\ active' = active
            /\ available' = available

\* --------------------------------------------------------------- Unmap

\* UnmapCleared without the test of the range.
UnmapCleared_anyAddr(s, ar) ==
  {c \in contexts[s] : lastFaultSP[c] = s}

\* The contexts whose fault cache the scan of Unmap clears.
UnmapCleared(s, ar) ==
  {c \in contexts[s] : lastFaultSP[c] = s /\ RangeContains(ar, lastFaultAddr[c])}

\* The scan of Unmap, under s.mu and each c.mu.
UnmapScan(s, ar) ==
  LET cl == UnmapCleared(s, ar)
  IN  /\ lastFaultSP' = [c \in Contexts |-> IF c \in cl THEN NoSP ELSE lastFaultSP[c]]
      /\ contexts' = [contexts EXCEPT ![s] = @ \ cl]
      /\ clearedBy' = [c \in Contexts |-> IF c \in cl THEN s ELSE clearedBy[c]]
      /\ UNCHANGED lastFaultAddr

\* munmap that unmaps the first page of the range only.
munmap_firstPage(m, ar) == {a \in m : a # ar.Start}

\* The pages left mapped after munmap(ar).
munmap(m, ar) == {a \in m : ~RangeContains(ar, a)}

\* The two ranges subprocess.unmap passes to Unmap.
unmapRange1 == ToRange(0, stubStart).ar
unmapRange2 == ToRange(stubEnd, maximumUserAddress - stubEnd).ar

\* The pages left mapped after subprocess.unmap.
unmap(m) ==
  IF maximumUserAddress # stubEnd
    THEN munmap(munmap(m, unmapRange1), unmapRange2)
    ELSE munmap(m, unmapRange1)

\* ------------------------------------------------------------ Init

InitWait ==
  /\ waitPc = "idle"
  /\ waitOutcome = "stopped"
  /\ waitRet = 0
  /\ waitRetries = 0
  /\ waitsDone = 0
  /\ waitLog = <<>>
  /\ waitCaller = "other"

umIdle == [pc |-> "idle", sp |-> NoSP, ar |-> [Start |-> 0, End |-> 0]]

NoCall == [st |-> "none", sp |-> NoSP, ar |-> [Start |-> 0, End |-> 0]]

InitPool ==
  /\ exists = [s \in Subprocs |-> FALSE]
  /\ active = {}
  /\ available = {}
  /\ holders = [s \in Subprocs |-> 0]
  /\ released = [s \in Subprocs |-> FALSE]
  /\ numContexts = [s \in Subprocs |-> 0]
  /\ contexts = [s \in Subprocs |-> {}]
  /\ mapped = [s \in Subprocs |-> {}]
  /\ workers = [s \in Subprocs |-> 0]
  /\ relPc = [s \in Subprocs |-> "idle"]
  /\ bound = [c \in Contexts |-> NoSP]
  /\ unregPc = [c \in Contexts |-> "idle"]
  /\ unregRel = [c \in Contexts |-> FALSE]
  /\ lastFaultSP = [c \in Contexts |-> NoSP]
  /\ lastFaultAddr = [c \in Contexts |-> 0]
  /\ um = umIdle
  /\ clearedBy = [c \in Contexts |-> NoSP]
  /\ cycle = [s \in Subprocs |-> "none"]

\* ------------------------------------------------- the stack slot pool

\* pool.Pool{Start: 0, Limit: maxGuestThreads}: the next unused ID and the
\* IDs that were put back.
NewPool == [next |-> 0, cache |-> <<>>]

\* Pool.Get: an ID that was put back, else the next unused one; fails when
\* there is none.
PoolGet(p) ==
  IF Len(p.cache) > 0
    THEN [ok |-> TRUE, id |-> p.cache[Len(p.cache)],
          pool |-> [p EXCEPT !.cache = SubSeq(@, 1, Len(@) - 1)]]
  ELSE IF p.next >= maxGuestThreads
    THEN [ok |-> FALSE, id |-> 0, pool |-> p]
  ELSE [ok |-> TRUE, id |-> p.next, pool |-> [p EXCEPT !.next = @ + 1]]

\* Pool.Put.
PoolPut(p, id) == [p EXCEPT !.cache = Append(@, id)]

\* initSyscallThread: the syscall thread takes a stack slot.
initSyscallThread(sp) ==
  LET got == PoolGet(sysmsgStackPool[sp])
  IN  /\ got.ok
      /\ sysmsgStackPool' = [sysmsgStackPool EXCEPT ![sp] = got.pool]
      /\ syscallThreadStack' = [syscallThreadStack EXCEPT ![sp] = {got.id}]

\* ------------------------------------------------------ newSubprocess

\* newSubprocess when globalPool.fetchAvailable returns sp.
newSubprocess_reuse(sp) ==
  /\ holders[sp] < MaxHolders
  /\ fetchAvailable(sp)
  /\ holders' = [holders EXCEPT ![sp] = @ + 1]
  /\ cycle' = [cycle EXCEPT ![sp] = IF @ = "two" THEN "reused" ELSE "none"]
  /\ UNCHANGED <<exists, numContexts, contexts, mapped, workers, relPc, bound,
                 unregPc, unregRel, lastFaultSP, lastFaultAddr, um, clearedBy, stackVars>>

\* newSubprocess when the pool has nothing available: the object is built,
\* its syscall thread initialised, its worker started, the address space
\* inherited by the new stub process unmapped, and the object added to the
\* pool.  Nothing else holds the object before it is returned.
newSubprocess_create(sp) ==
  /\ available = {}
  /\ ~exists[sp]
  /\ \A q \in Subprocs : q < sp => exists[q]
  /\ exists' = [exists EXCEPT ![sp] = TRUE]
  /\ initSyscallThread(sp)
  /\ workers' = [workers EXCEPT ![sp] = @ + 1]
  /\ mapped' = [mapped EXCEPT ![sp] = unmap(NonStubAddrs)]
  /\ add(sp)
  /\ holders' = [holders EXCEPT ![sp] = 1]
  /\ UNCHANGED <<released, numContexts, contexts, relPc, bound, unregPc, unregRel,
                 lastFaultSP, lastFaultAddr, um, clearedBy, cycle>>

\* newSubprocess returning sp.
newSubprocess(sp) ==
  /\ panicked = ""
  /\ newSubprocess_reuse(sp) \/ newSubprocess_create(sp)
  /\ UNCHANGED <<panicked, sysVars, swVars, ctlVars, callSeq, extVars, thReq>>

\* ------------------------------------------------------------ Release

\* Release: starts the goroutine and returns.
Release(s) ==
  /\ panicked = ""
  /\ holders[s] > 0
  /\ relPc[s] = "idle"
  /\ holders' = [holders EXCEPT ![s] = @ - 1]
  /\ relPc' = [relPc EXCEPT ![s] = "scan1"]
  /\ UNCHANGED <<exists, active, available, released, numContexts, contexts, mapped,
                 workers, bound, unregPc, unregRel, lastFaultSP, lastFaultAddr, um,
                 clearedBy, cycle, panicked, nonPoolVars>>

\* The goroutine of Release inside s.unmap(): the scan of one Unmap call.
Release_scan(s) ==
  /\ panicked = ""
  /\ relPc[s] \in {"scan1", "scan2"}
  /\ UnmapScan(s, IF relPc[s] = "scan1" THEN unmapRange1 ELSE unmapRange2)
  /\ relPc' = [relPc EXCEPT ![s] = IF @ = "scan1" THEN "munmap1" ELSE "munmap2"]
  /\ UNCHANGED <<exists, active, available, holders, released, numContexts, mapped,
                 workers, bound, unregPc, unregRel, um, cycle, panicked, nonPoolVars>>

\* The goroutine of Release inside s.unmap(): the munmap of one Unmap call,
\* injected under s.syscallThreadMu.
Release_munmap(s) ==
  /\ panicked = ""
  /\ relPc[s] \in {"munmap1", "munmap2"}
  /\ syscallThreadMu[s] = {}
  /\ mapped' = [mapped EXCEPT ![s] =
                  munmap(@, IF relPc[s] = "munmap1" THEN unmapRange1 ELSE unmapRange2)]
  /\ relPc' = [relPc EXCEPT ![s] =
                  IF @ = "munmap1" /\ maximumUserAddress # stubEnd THEN "scan2" ELSE "release"]
  /\ UNCHANGED <<exists, active, available, holders, released, numContexts, contexts,
                 workers, bound, unregPc, unregRel, lastFaultSP, lastFaultAddr, um,
                 clearedBy, cycle, panicked, nonPoolVars>>

\* The goroutine of Release: globalPool.release(s).
Release_release(s) ==
  /\ panicked = ""
  /\ relPc[s] = "release"
  /\ release(s)
  /\ relPc' = [relPc EXCEPT ![s] = "idle"]
  /\ UNCHANGED <<exists, holders, numContexts, contexts, mapped, workers, bound,
                 unregPc, unregRel, lastFaultSP, lastFaultAddr, um, clearedBy, cycle, panicked, nonPoolVars>>

\* ------------------------------------------------- MapFile and Unmap

\* A caller uses s while it holds s, or on behalf of a context bound to s
\* that is not inside unregisterContext.
InUse(s) ==
  /\ exists[s]
  /\ holders[s] > 0 \/ \E c \in Contexts : bound[c] = s /\ unregPc[c] = "idle"

\* MapFile: an mmap(MAP_FIXED) of [addr, addr+length) injected under
\* s.syscallThreadMu; when the system call fails the error is returned and
\* nothing is mapped.
MapFile(s, addr, length) ==
  /\ panicked = ""
  /\ InUse(s)
  /\ syscallThreadMu[s] = {}
  /\ \E ok \in BOOLEAN :
       mapped' = [mapped EXCEPT ![s] =
                    IF ok THEN @ \cup {a \in NonStubAddrs : addr <= a /\ a < addr + length}
                          ELSE @]
  /\ callSeq' = [st |-> "mapped", sp |-> s, ar |-> [Start |-> addr, End |-> addr + length]]
  /\ UNCHANGED <<exists, active, available, holders, released, numContexts, contexts,
                 workers, relPc, bound, unregPc, unregRel, lastFaultSP, lastFaultAddr,
                 um, clearedBy, cycle, panicked, nonPoolCallVars>>

\* Unmap up to the end of the scan (or the panic on overflow).
Unmap_scan(s, addr, length) ==
  /\ panicked = ""
  /\ InUse(s)
  /\ um.pc = "idle"
  /\ LET r == ToRange(addr, length)
     IN  IF r.ok
           THEN /\ UnmapScan(s, r.ar)
                /\ um' = [pc |-> "munmap", sp |-> s, ar |-> r.ar]
                /\ callSeq' = IF /\ callSeq.st = "mapped" /\ callSeq.sp = s
                                 /\ r.ar.Start <= callSeq.ar.Start
                                 /\ callSeq.ar.End <= r.ar.End
                                THEN [callSeq EXCEPT !.st = "scanned"]
                                ELSE NoCall
                /\ UNCHANGED panicked
           ELSE /\ panicked' = "overflows"
                /\ callSeq' = NoCall
                /\ UNCHANGED <<contexts, lastFaultSP, lastFaultAddr, clearedBy, um>>
  /\ UNCHANGED <<exists, active, available, holders, released, numContexts, mapped,
                 workers, relPc, bound, unregPc, unregRel, cycle, nonPoolCallVars>>

\* Unmap: the munmap injected under s.syscallThreadMu.
Unmap_munmap ==
  /\ panicked = ""
  /\ um.pc = "munmap"
  /\ syscallThreadMu[um.sp] = {}
  /\ mapped' = [mapped EXCEPT ![um.sp] = munmap(@, um.ar)]
  /\ um' = umIdle
  /\ callSeq' = IF callSeq.st = "scanned" THEN [callSeq EXCEPT !.st = "unmapped"] ELSE NoCall
  /\ UNCHANGED <<exists, active, available, holders, released, numContexts, contexts,
                 workers, relPc, bound, unregPc, unregRel, lastFaultSP, lastFaultAddr,
                 clearedBy, cycle, panicked, nonPoolCallVars>>

\* ------------------------------------------------------------ contexts

\* A context starts running in the address space s: it is counted in
\* s.numContexts, and a fault cached for another subprocess is forgotten.
registerContext(c, s) ==
  /\ panicked = ""
  /\ bound[c] = NoSP
  /\ unregPc[c] = "idle"
  /\ exists[s]
  /\ holders[s] > 0
  /\ bound' = [bound EXCEPT ![c] = s]
  /\ numContexts' = [numContexts EXCEPT ![s] = @ + 1]
  /\ cycle' = [cycle EXCEPT ![s] = IF numContexts[s] + 1 >= 2 THEN "two" ELSE @]
  /\ IF lastFaultSP[c] \notin {NoSP, s}
       THEN /\ contexts' = [contexts EXCEPT ![lastFaultSP[c]] = @ \ {c}]
            /\ lastFaultSP' = [lastFaultSP EXCEPT ![c] = NoSP]
       ELSE UNCHANGED <<contexts, lastFaultSP>>
  /\ UNCHANGED <<exists, active, available, holders, released, mapped, workers, relPc,
                 unregPc, unregRel, lastFaultAddr, um, clearedBy, panicked, nonPoolVars>>

\* A fault of c at addr while it runs in its subprocess is cached.
recordFault(c, addr) ==
  /\ panicked = ""
  /\ bound[c] # NoSP
  /\ unregPc[c] = "idle"
  /\ lastFaultSP' = [lastFaultSP EXCEPT ![c] = bound[c]]
  /\ lastFaultAddr' = [lastFaultAddr EXCEPT ![c] = addr]
  /\ contexts' = [s \in Subprocs |->
                    IF s = bound[c] THEN contexts[s] \cup {c} ELSE contexts[s] \ {c}]
  /\ clearedBy' = [clearedBy EXCEPT ![c] = NoSP]
  /\ callSeq' = NoCall
  /\ UNCHANGED <<exists, active, available, holders, released, numContexts, mapped,
                 workers, relPc, bound, unregPc, unregRel, um, cycle, panicked,
                 nonPoolCallVars>>

\* unregisterContext_locked without the read of s.released.
unregisterContext_locked_noRead(c) ==
  /\ panicked = ""
  /\ bound[c] # NoSP
  /\ unregPc[c] = "idle"
  /\ LET s == bound[c]
     IN  /\ contexts' = [contexts EXCEPT ![s] = @ \ {c}]
         /\ numContexts' = [numContexts EXCEPT ![s] = @ - 1]
         /\ unregRel' = [unregRel EXCEPT ![c] = FALSE]
  /\ unregPc' = [unregPc EXCEPT ![c] = "check"]
  /\ UNCHANGED <<exists, active, available, holders, released, mapped, workers, relPc,
                 bound, lastFaultSP, lastFaultAddr, um, clearedBy, cycle,
                 panicked, nonPoolVars>>

\* unregisterContext up to s.mu.Unlock().
unregisterContext_locked(c) ==
  /\ panicked = ""
  /\ bound[c] # NoSP
  /\ unregPc[c] = "idle"
  /\ LET s == bound[c]
     IN  /\ contexts' = [contexts EXCEPT ![s] = @ \ {c}]
         /\ numContexts' = [numContexts EXCEPT ![s] = @ - 1]
         /\ unregRel' = [unregRel EXCEPT ![c] = released[s]]
  /\ unregPc' = [unregPc EXCEPT ![c] = "check"]
  /\ UNCHANGED <<exists, active, available, holders, released, mapped, workers, relPc,
                 bound, lastFaultSP, lastFaultAddr, um, clearedBy, cycle,
                 panicked, nonPoolVars>>

\* unregisterContext after s.mu.Unlock(): the hand-back to the pool.
unregisterContext_check(c) ==
  /\ panicked = ""
  /\ unregPc[c] = "check"
  /\ LET s == bound[c]
     IN  IF unregRel[c] /\ numContexts[s] = 0
           THEN release(s)
           ELSE UNCHANGED <<released, active, available>>
  /\ unregPc' = [unregPc EXCEPT ![c] = "idle"]
  /\ unregRel' = [unregRel EXCEPT ![c] = FALSE]
  /\ bound' = [bound EXCEPT ![c] = NoSP]
  /\ UNCHANGED <<exists, holders, numContexts, contexts, mapped, workers, relPc,
                 lastFaultSP, lastFaultAddr, um, clearedBy, cycle, panicked, nonPoolVars>>

\* ------------------------------ thread.syscall, syscallIgnoreInterrupt

ERESTARTSYS == 512
ERESTARTNOINTR == 513
ERESTARTNOHAND == 514

\* The values the kernel may leave in the return register of an injected
\* system call: results, -EINTR, -EINVAL, the three restart codes and
\* -ERESTART_RESTARTBLOCK.
KernelReturns == {0, 1, -4, -22, -ERESTARTSYS, -ERESTARTNOINTR, -ERESTARTNOHAND, -516}

\* The system calls getSysmsgThread injects (prctl, seccomp) and one argument.
Sysnos == {157, 317}
SysArgs == {0, 1}

\* The signals wait(stopped) may return to thread.syscall.
SIGTRAP == 5
\* SIGSEGV, SIGCHLD, SIGSTOP, and a trap stop that wait(stopped) re-encodes
\* with its trap cause.
StopSignals == {SIGTRAP, 11, 17, 19, SIGTRAP + 256 * 1}

\* The address of the syscall instruction of the stub, kept in initRegs.
initRegs == [ip |-> 0, rax |-> 0, arg |-> 0]

\* createSyscallRegs: a copy of initRegs with the system call number and the
\* arguments set.
createSyscallRegs(init, sysno, arg) == [ip |-> init.ip, rax |-> sysno, arg |-> arg]

\* syscallReturnValue: decodes the return register.
syscallReturnValue(regs) ==
  IF regs.rax < 0 THEN [rval |-> 0, err |-> -regs.rax]
                  ELSE [rval |-> regs.rax, err |-> 0]

\* The switch of syscallIgnoreInterrupt: whether the cycle is repeated.
restartsSyscall_twoCodes(err) == err \in {ERESTARTSYS, ERESTARTNOINTR}

restartsSyscall(err) == err \in {ERESTARTSYS, ERESTARTNOINTR, ERESTARTNOHAND}

NoRet == [rval |-> 0, err |-> -1]

InitSys ==
  /\ sysPc = "idle"
  /\ sysReq = [sysno |-> 0, arg |-> 0]
  /\ sysRegs = initRegs
  /\ traceeRegs = initRegs
  /\ sysStops = 0
  /\ sysExecuted = <<>>
  /\ sysOutcomes = <<>>
  /\ sysRet = NoRet
  /\ sysTrace = <<>>

\* syscallIgnoreInterrupt is called; the first cycle builds regs.
syscallIgnoreInterrupt_call(sysno, arg) ==
  /\ panicked = ""
  /\ sysPc = "idle"
  /\ sysReq' = [sysno |-> sysno, arg |-> arg]
  /\ sysRegs' = createSyscallRegs(initRegs, sysno, arg)
  /\ sysPc' = "setRegs"
  /\ sysExecuted' = <<>>
  /\ sysOutcomes' = <<>>
  /\ sysRet' = NoRet
  /\ UNCHANGED <<traceeRegs, sysStops, sysTrace, panicked, nonSysVars>>

\* thread.syscall: t.setRegs(regs).
syscall_setRegs ==
  /\ panicked = ""
  /\ sysPc = "setRegs"
  /\ traceeRegs' = sysRegs
  /\ sysStops' = 0
  /\ sysTrace' = <<[op |-> "setRegs", sig |-> 0]>>
  /\ sysPc' = "cont"
  /\ UNCHANGED <<sysReq, sysRegs, sysExecuted, sysOutcomes, sysRet, panicked, nonSysVars>>

\* The number of restart codes the kernel has answered so far.
RestartsSoFar == Cardinality({i \in DOMAIN sysOutcomes : restartsSyscall(sysOutcomes[i].err)})

\* "sig == unix.SIGTRAP" for every signal whose low byte is SIGTRAP.
reachedSyscallStop_lowByte(sig) == sig % 256 = SIGTRAP

\* "sig == unix.SIGTRAP": reached syscall-enter-stop.
reachedSyscallStop(sig) == sig = SIGTRAP

\* thread.syscall: PTRACE_CONT and wait(stopped).  The traced thread either
\* stops on another signal before it reaches the syscall instruction, or
\* executes the system call its registers name and stops on the trap
\* instruction that follows.  The kernel answers at most MaxRestarts restart
\* codes to one call of syscallIgnoreInterrupt.
syscall_cont(sig, ret) ==
  /\ panicked = ""
  /\ sysPc = "cont"
  /\ restartsSyscall(-ret) => RestartsSoFar < MaxRestarts
  /\ sysTrace' = Append(sysTrace, [op |-> "cont", sig |-> sig])
  /\ IF reachedSyscallStop(sig)
       THEN /\ sysExecuted' = Append(sysExecuted, [ip |-> traceeRegs.ip,
                                                   sysno |-> traceeRegs.rax,
                                                   arg |-> traceeRegs.arg])
            /\ traceeRegs' = [traceeRegs EXCEPT !.ip = @ + 1, !.rax = ret]
            /\ sysPc' = "getRegs"
            /\ UNCHANGED sysStops
       ELSE /\ sysStops < MaxStops
            /\ sysStops' = sysStops + 1
            /\ UNCHANGED <<sysExecuted, traceeRegs, sysPc>>
  /\ UNCHANGED <<sysReq, sysRegs, sysOutcomes, sysRet, panicked, nonSysVars>>

\* thread.syscall: getRegs and syscallReturnValue; then the switch of
\* syscallIgnoreInterrupt, which rebuilds regs and repeats or returns.
syscall_getRegs ==
  /\ panicked = ""
  /\ sysPc = "getRegs"
  /\ LET out == syscallReturnValue(traceeRegs)
     IN  /\ sysOutcomes' = Append(sysOutcomes, out)
         /\ sysTrace' = Append(sysTrace, [op |-> "getRegs", sig |-> 0])
         /\ IF restartsSyscall(out.err)
              THEN /\ sysRegs' = createSyscallRegs(initRegs, sysReq.sysno, sysReq.arg)
                   /\ sysPc' = "setRegs"
                   /\ UNCHANGED sysRet
              ELSE /\ sysRegs' = traceeRegs
                   /\ sysPc' = "returned"
                   /\ sysRet' = out
  /\ UNCHANGED <<sysReq, traceeRegs, sysStops, sysExecuted, panicked, nonSysVars>>

\* The caller of syscallIgnoreInterrupt goes on.
syscallIgnoreInterrupt_done ==
  /\ panicked = ""
  /\ sysPc = "returned"
  /\ sysPc' = "idle"
  /\ UNCHANGED <<sysReq, sysRegs, traceeRegs, sysStops, sysExecuted, sysOutcomes, sysRet,
                 sysTrace, panicked, nonSysVars>>


\* ---------------------------------------------------------- switchToApp

\* The values of msg.Type: the event types of the protocol and one value
\* that is none of them.
EventTypes == {"Syscall", "SyscallTrap", "SyscallCanBePatched", "Fault", "Interrupt",
               "Unknown"}

\* The values of msg.Err: none, or an error code of the stub.
MsgErrs == {0, 1}

\* What msg.FPUStateOffset() returns: an offset and whether it failed.
FpuOffsets == {0, 64}
FpuResults == [offset : FpuOffsets, ok : BOOLEAN]

NoObs == [type |-> "", err |-> 0, fpuOk |-> TRUE, spurious |-> FALSE]
NoSwRet == [kind |-> "none", isSyscall |-> FALSE, shouldPatchSyscall |-> FALSE]

SwReturn(isSyscall, shouldPatch) ==
  [kind |-> "nil", isSyscall |-> isSyscall, shouldPatchSyscall |-> shouldPatch]
SwError == [kind |-> "err", isSyscall |-> FALSE, shouldPatchSyscall |-> FALSE]

InitSwitch ==
  /\ swPc = "idle"
  /\ msgType = "Syscall"
  /\ msgErr = 0
  /\ fpuStateToMsgOffset = 0
  /\ swRet = NoSwRet
  /\ swObs = NoObs
  /\ msgState = "Done"
  /\ msgRegs = "none"
  /\ msgFastPath = FALSE
  /\ signalInfo = "none"
  /\ interruptEnabled = FALSE
  /\ swPath = ""

\* Whether switchToApp writes msg.Regs and the fast-path hint and hands the
\* Message to the stub: only past the check of c.interrupt.Enable.
publishes_always(pending) == TRUE

publishes(pending) == ~pending

\* switchToApp up to waitEvent: getSysmsgThread may fail, a pending interrupt
\* returns at once with the interrupt as signal info, otherwise the
\* registers are published, the Message is handed to the stub (its state
\* becomes None) and the caller waits for the stub.
switchToApp_enter(threadErr, pending) ==
  /\ panicked = ""
  /\ swPc = "idle"
  /\ swObs' = NoObs
  /\ IF threadErr THEN /\ swRet' = SwError
                       /\ swPc' = "returned"
                       /\ swPath' = "threadErr"
                       /\ UNCHANGED <<signalInfo, interruptEnabled, msgRegs, msgFastPath,
                                      msgState>>
     ELSE /\ IF pending THEN /\ swRet' = SwReturn(FALSE, FALSE)
                             /\ swPc' = "returned"
                             /\ swPath' = "pending"
                             /\ signalInfo' = "SignalInterrupt"
                             /\ UNCHANGED interruptEnabled
                        ELSE /\ swRet' = NoSwRet
                             /\ swPc' = "waiting"
                             /\ swPath' = "guest"
                             /\ interruptEnabled' = TRUE
                             /\ UNCHANGED signalInfo
          /\ IF publishes(pending) THEN /\ msgRegs' = "sentry"
                                        /\ msgFastPath' = TRUE
                                        /\ msgState' = "None"
                                   ELSE UNCHANGED <<msgRegs, msgFastPath, msgState>>
  /\ UNCHANGED <<msgType, msgErr, fpuStateToMsgOffset, panicked, nonSwVars>>

\* The stub runs the guest, then writes the event and the guest registers
\* into the Message and sets its state to Done; waitEvent(StateDone) returns.
stub_done(type, err) ==
  /\ panicked = ""
  /\ swPc = "waiting"
  /\ msgState = "None"
  /\ msgType' = type
  /\ msgErr' = err
  /\ msgRegs' = "stub"
  /\ msgFastPath' = FALSE
  /\ msgState' = "Done"
  /\ swPc' = "done"
  /\ UNCHANGED <<fpuStateToMsgOffset, swRet, swObs, signalInfo, interruptEnabled, swPath,
                 panicked, nonSwVars>>

\* Whether the FPU state offset is refreshed from the Message.
refreshesFpuOffset(type) == type # "SyscallTrap"

\* The outcome of switchToApp after waitEvent, in the order of the code:
\* the FPU state offset, msg.Err, the rewrite of SyscallCanBePatched, the
\* classification by msg.Type.  The first definition is the one that never
\* sets shouldPatchSyscall.
switchToApp_outcome_noPatchFlag(type, err, fpu, spurious) ==
  LET type2 == IF type = "SyscallCanBePatched" THEN "Syscall" ELSE type
      offset == IF refreshesFpuOffset(type) THEN fpu.offset ELSE 0
  IN  IF refreshesFpuOffset(type) /\ ~fpu.ok
        THEN [ret |-> SwError, type |-> type, offset |-> offset, panic |-> ""]
      ELSE IF err # 0
        THEN [ret |-> NoSwRet, type |-> type, offset |-> offset, panic |-> "stub thread failed"]
      ELSE IF type2 \in {"Syscall", "SyscallTrap"}
        THEN [ret |-> IF spurious THEN SwReturn(FALSE, FALSE) ELSE SwReturn(TRUE, FALSE),
              type |-> type2, offset |-> offset, panic |-> ""]
      ELSE IF type2 # "Fault"
        THEN [ret |-> NoSwRet, type |-> type2, offset |-> offset,
              panic |-> "unknown message type"]
      ELSE [ret |-> SwReturn(FALSE, FALSE), type |-> type2, offset |-> offset, panic |-> ""]

switchToApp_outcome(type, err, fpu, spurious) ==
  LET patch == type = "SyscallCanBePatched"
      type2 == IF patch THEN "Syscall" ELSE type
      offset == IF refreshesFpuOffset(type) THEN fpu.offset ELSE 0
  IN  IF refreshesFpuOffset(type) /\ ~fpu.ok
        THEN [ret |-> SwError, type |-> type, offset |-> offset, panic |-> ""]
      ELSE IF err # 0
        THEN [ret |-> NoSwRet, type |-> type, offset |-> offset, panic |-> "stub thread failed"]
      ELSE IF type2 \in {"Syscall", "SyscallTrap"}
        THEN [ret |-> IF spurious THEN SwReturn(FALSE, FALSE) ELSE SwReturn(TRUE, patch),
              type |-> type2, offset |-> offset, panic |-> ""]
      ELSE IF type2 # "Fault"
        THEN [ret |-> NoSwRet, type |-> type2, offset |-> offset,
              panic |-> "unknown message type"]
      ELSE [ret |-> SwReturn(FALSE, FALSE), type |-> type2, offset |-> offset, panic |-> ""]

\* switchToApp after waitEvent.  fpu is what msg.FPUStateOffset() returns and
\* spurious what maybePatchSignalInfo returns when they are called.
switchToApp_classify(fpu, spurious) ==
  /\ panicked = ""
  /\ swPc = "done"
  /\ LET out == switchToApp_outcome(msgType, msgErr, fpu, spurious)
     IN  /\ swObs' = [type |-> msgType, err |-> msgErr,
                      fpuOk |-> refreshesFpuOffset(msgType) => fpu.ok,
                      spurious |-> spurious]
         /\ fpuStateToMsgOffset' = out.offset
         /\ msgType' = out.type
         /\ swRet' = out.ret
         /\ panicked' = out.panic
         /\ swPc' = IF out.panic # "" THEN "aborted" ELSE "returned"
         /\ signalInfo' = IF out.ret = SwError \/ out.panic = "stub thread failed"
                             THEN signalInfo ELSE "msg"
  /\ interruptEnabled' = FALSE
  /\ UNCHANGED <<msgErr, msgState, msgRegs, msgFastPath, swPath, nonSwVars>>

\* The caller of switchToApp goes on.
switchToApp_return ==
  /\ panicked = ""
  /\ swPc = "returned"
  /\ swPc' = "idle"
  /\ UNCHANGED <<msgType, msgErr, fpuStateToMsgOffset, swRet, swObs, msgState, msgRegs,
                 msgFastPath, signalInfo, interruptEnabled, swPath, panicked, nonSwVars>>


\* ------------------------------------------------------ the control plane

\* The goroutines that send thread requests: one per context (through
\* getSysmsgThread) and the caller of newThread.
NewThreadCaller == 0
Requesters == {NewThreadCaller} \cup Contexts
\* The worker goroutine of a subprocess, as a holder of syscallThreadMu.
Worker == NumContexts + 1
Threads == 1..MaxThreads
\* "nil" for a *sysmsgThread or a *thread.
NoThread == 0

InitStack ==
  /\ sysmsgStackPool = [s \in Subprocs |-> NewPool]
  /\ syscallThreadStack = [s \in Subprocs |-> {}]

InitCtl ==
  /\ syscallThreadMu = [s \in Subprocs |-> {}]
  /\ stUsers = [s \in Subprocs |-> {}]
  /\ nextThread = 1
  /\ thSub = [t \in Threads |-> NoSP]
  /\ thStack = [t \in Threads |-> 0]
  /\ thState = [t \in Threads |-> "none"]
  /\ ctxThread = [c \in Contexts |-> NoThread]
  /\ wPc = [s \in Subprocs |-> "recv"]
  /\ wReq = [s \in Subprocs |-> NewThreadCaller]
  /\ wThread = [s \in Subprocs |-> NoThread]
  /\ gPc = [r \in Requesters |-> "idle"]
  /\ gS = [r \in Requesters |-> NoSP]
  /\ gThread = [r \in Requesters |-> NoThread]
  /\ accepted = [s \in Subprocs |-> <<>>]
  /\ replied = [s \in Subprocs |-> <<>>]

\* sysmsgThread.destroy: the stack slot of the thread goes back to the pool
\* of the subprocess the thread belongs to.
destroy(t) ==
  /\ sysmsgStackPool' = [sysmsgStackPool EXCEPT ![thSub[t]] = PoolPut(@, thStack[t])]
  /\ thState' = [thState EXCEPT ![t] = "destroyed"]

\* "sysThread != nil && sysThread.subproc != s".
isStale_never(sysThread, s) == FALSE

isStale(sysThread, s) == sysThread # NoThread /\ thSub[sysThread] # s

\* The number of threads cloned so far and of requests that were received
\* and whose thread is not cloned yet.
ThreadsRequested ==
  (nextThread - 1) + Cardinality({s \in Subprocs : wPc[s] \in {"lock", "attach", "clone"}})

\* The same, with the requests that are sent and not received yet.
RequestsStarted == ThreadsRequested + Cardinality({r \in Requesters : gPc[r] = "send"})

\* getSysmsgThread(c) on s up to the send on s.requests: a thread of another
\* subprocess is destroyed; a thread of s is returned; otherwise a thread is
\* requested.
getSysmsgThread_begin(c, s) ==
  /\ panicked = ""
  /\ exists[s]
  /\ gPc[c] = "idle"
  /\ gS' = [gS EXCEPT ![c] = s]
  /\ LET sysThread == ctxThread[c]
         stale == isStale(sysThread, s)
     IN  IF sysThread # NoThread /\ ~stale
           THEN /\ gPc' = [gPc EXCEPT ![c] = "retExisting"]
                /\ gThread' = [gThread EXCEPT ![c] = sysThread]
                /\ UNCHANGED <<sysmsgStackPool, thState>>
           ELSE /\ IF stale THEN destroy(sysThread)
                            ELSE UNCHANGED <<sysmsgStackPool, thState>>
                /\ gPc' = [gPc EXCEPT ![c] = "send"]
                /\ UNCHANGED gThread
  /\ UNCHANGED <<syscallThreadStack, syscallThreadMu, stUsers, nextThread, thSub, thStack,
                 ctxThread, wPc, wReq, wThread, accepted, replied, panicked, nonCtlVars>>

\* newThread on s up to the send on s.requests.
newThread_begin(s) ==
  /\ panicked = ""
  /\ exists[s]
  /\ gPc[NewThreadCaller] = "idle"
  /\ gPc' = [gPc EXCEPT ![NewThreadCaller] = "send"]
  /\ gS' = [gS EXCEPT ![NewThreadCaller] = s]
  /\ UNCHANGED <<stackVars, syscallThreadMu, stUsers, nextThread, thSub, thStack, thState,
                 ctxThread, wPc, wReq, wThread, gThread, accepted, replied, panicked,
                 nonCtlVars>>


\* The worker goroutine: "for req := range requests" receives the request
\* that r is sending on the unbuffered channel.  At most MaxThreads requests
\* are received.
worker_receive_whileHandling(s, r) ==
  /\ panicked = ""
  /\ workers[s] >= 1
  /\ ThreadsRequested < MaxThreads
  /\ gPc[r] = "send"
  /\ gS[r] = s
  /\ wReq' = [wReq EXCEPT ![s] = r]
  /\ wPc' = [wPc EXCEPT ![s] = "lock"]
  /\ gPc' = [gPc EXCEPT ![r] = "recvReply"]
  /\ accepted' = [accepted EXCEPT ![s] = Append(@, r)]
  /\ UNCHANGED <<stackVars, syscallThreadMu, stUsers, nextThread, thSub, thStack, thState,
                 ctxThread, wThread, gS, gThread, replied, panicked,
                 nonCtlVars>>

worker_receive(s, r) ==
  /\ wPc[s] = "recv"
  /\ worker_receive_whileHandling(s, r)

\* handlePtraceSyscallRequest: s.syscallThreadMu.Lock().
handlePtraceSyscallRequest_lock(s) ==
  /\ panicked = ""
  /\ wPc[s] = "lock"
  /\ syscallThreadMu[s] = {}
  /\ syscallThreadMu' = [syscallThreadMu EXCEPT ![s] = {Worker}]
  /\ wPc' = [wPc EXCEPT ![s] = "attach"]
  /\ UNCHANGED <<stackVars, stUsers, nextThread, thSub, thStack, thState, ctxThread, wReq,
                 wThread, gPc, gS, gThread, accepted, replied, panicked,
                 nonCtlVars>>

\* handlePtraceSyscallRequest: s.syscallThread.attach().
handlePtraceSyscallRequest_attach(s) ==
  /\ panicked = ""
  /\ wPc[s] = "attach"
  /\ stUsers' = [stUsers EXCEPT ![s] = @ \cup {Worker}]
  /\ wPc' = [wPc EXCEPT ![s] = "clone"]
  /\ UNCHANGED <<stackVars, syscallThreadMu, nextThread, thSub, thStack, thState, ctxThread,
                 wReq, wThread, gPc, gS, gThread, accepted, replied,
                 panicked, nonCtlVars>>

\* handlePtraceSyscallRequest, case requestThread: clone, wait for SIGSTOP,
\* take a stack slot, detach the new thread.
handlePtraceSyscallRequest_clone(s, stopped) ==
  /\ panicked = ""
  /\ wPc[s] = "clone"
  /\ LET got == PoolGet(sysmsgStackPool[s])
         t == nextThread
     IN  IF ~stopped \/ ~got.ok
           THEN /\ panicked' = IF ~stopped THEN "error waiting for new clone"
                                           ELSE "unable to allocate a sysmsg stub thread"
                /\ UNCHANGED <<sysmsgStackPool, nextThread, thSub, thStack, thState, wPc,
                               wThread, thReq>>
           ELSE /\ sysmsgStackPool' = [sysmsgStackPool EXCEPT ![s] = got.pool]
                /\ nextThread' = nextThread + 1
                /\ thSub' = [thSub EXCEPT ![t] = s]
                /\ thStack' = [thStack EXCEPT ![t] = got.id]
                /\ thState' = [thState EXCEPT ![t] = "live"]
                /\ wThread' = [wThread EXCEPT ![s] = t]
                /\ thReq' = [thReq EXCEPT ![t] = wReq[s]]
                /\ wPc' = [wPc EXCEPT ![s] = "reply"]
                /\ UNCHANGED panicked
  /\ UNCHANGED <<syscallThreadStack, syscallThreadMu, stUsers, ctxThread, wReq, gPc, gS,
                 gThread, accepted, replied, nonCtlReqVars>>

\* handlePtraceSyscallRequest: "r.thread <- t", received by the requester.
handlePtraceSyscallRequest_reply(s) ==
  /\ panicked = ""
  /\ wPc[s] = "reply"
  /\ gPc[wReq[s]] = "recvReply"
  /\ gThread' = [gThread EXCEPT ![wReq[s]] = wThread[s]]
  /\ gPc' = [gPc EXCEPT ![wReq[s]] = "attach"]
  /\ replied' = [replied EXCEPT ![s] = Append(@, wReq[s])]
  /\ wPc' = [wPc EXCEPT ![s] = "detach"]
  /\ UNCHANGED <<stackVars, syscallThreadMu, stUsers, nextThread, thSub, thStack, thState,
                 ctxThread, wReq, wThread, gS, accepted, panicked,
                 nonCtlVars>>

\* handlePtraceSyscallRequest returns: the deferred detach of the syscall
\* thread and the deferred unlock; the worker waits for the next request.
handlePtraceSyscallRequest_return(s) ==
  /\ panicked = ""
  /\ wPc[s] = "detach"
  /\ stUsers' = [stUsers EXCEPT ![s] = @ \ {Worker}]
  /\ syscallThreadMu' = [syscallThreadMu EXCEPT ![s] = @ \ {Worker}]
  /\ wPc' = [wPc EXCEPT ![s] = "recv"]
  /\ wReq' = [wReq EXCEPT ![s] = NewThreadCaller]
  /\ wThread' = [wThread EXCEPT ![s] = NoThread]
  /\ UNCHANGED <<stackVars, nextThread, thSub, thStack, thState, ctxThread, gPc, gS,
                 gThread, accepted, replied, panicked, nonCtlVars>>

\* getSysmsgThread(c) after the reply: the thread is attached and set up;
\* when msg.FPUStateOffset() fails it is destroyed and the error returned,
\* otherwise it becomes c.sysmsgThread.
getSysmsgThread_finish(c, fpuOk) ==
  /\ panicked = ""
  /\ c \in Contexts
  /\ gPc[c] = "attach"
  /\ IF fpuOk THEN /\ ctxThread' = [ctxThread EXCEPT ![c] = gThread[c]]
                   /\ gPc' = [gPc EXCEPT ![c] = "retNew"]
                   /\ UNCHANGED <<sysmsgStackPool, thState, gThread>>
              ELSE /\ destroy(gThread[c])
                   /\ gPc' = [gPc EXCEPT ![c] = "retErr"]
                   /\ gThread' = [gThread EXCEPT ![c] = NoThread]
                   /\ UNCHANGED ctxThread
  /\ UNCHANGED <<syscallThreadStack, syscallThreadMu, stUsers, nextThread, thSub, thStack,
                 wPc, wReq, wThread, gS, accepted, replied, panicked, nonCtlVars>>

\* The caller of getSysmsgThread goes on with what was returned: the
\* existing thread, the new thread, or the error.
getSysmsgThread_return(c) ==
  /\ panicked = ""
  /\ gPc[c] \in {"retExisting", "retNew", "retErr"}
  /\ gPc' = [gPc EXCEPT ![c] = "idle"]
  /\ gS' = [gS EXCEPT ![c] = NoSP]
  /\ gThread' = [gThread EXCEPT ![c] = NoThread]
  /\ UNCHANGED <<stackVars, syscallThreadMu, stUsers, nextThread, thSub, thStack, thState,
                 ctxThread, wPc, wReq, wThread, accepted, replied, panicked, nonCtlVars>>

\* newThread after the reply: t.attach() and return.
newThread_finish ==
  /\ panicked = ""
  /\ gPc[NewThreadCaller] = "attach"
  /\ gPc' = [gPc EXCEPT ![NewThreadCaller] = "idle"]
  /\ gS' = [gS EXCEPT ![NewThreadCaller] = NoSP]
  /\ gThread' = [gThread EXCEPT ![NewThreadCaller] = NoThread]
  /\ UNCHANGED <<stackVars, syscallThreadMu, stUsers, nextThread, thSub, thStack, thState,
                 ctxThread, wPc, wReq, wThread, accepted, replied, panicked,
                 nonCtlVars>>

\* subprocess.syscall called by the goroutine of context k (from MapFile or
\* Unmap): s.syscallThreadMu.Lock(), then the syscall thread runs the call.
subprocess_syscall_lock_noMutex(k, s) ==
  /\ panicked = ""
  /\ exists[s]
  /\ gPc[k] = "idle"
  /\ syscallThreadMu' = [syscallThreadMu EXCEPT ![s] = @ \cup {k}]
  /\ stUsers' = [stUsers EXCEPT ![s] = @ \cup {k}]
  /\ gPc' = [gPc EXCEPT ![k] = "syscall"]
  /\ gS' = [gS EXCEPT ![k] = s]
  /\ UNCHANGED <<stackVars, nextThread, thSub, thStack, thState, ctxThread, wPc, wReq,
                 wThread, gThread, accepted, replied, panicked, nonCtlVars>>

subprocess_syscall_lock(k, s) ==
  /\ syscallThreadMu[s] = {}
  /\ subprocess_syscall_lock_noMutex(k, s)

\* subprocess.syscall returns: the deferred unlock.
subprocess_syscall_unlock(k) ==
  /\ panicked = ""
  /\ gPc[k] = "syscall"
  /\ stUsers' = [stUsers EXCEPT ![gS[k]] = @ \ {k}]
  /\ syscallThreadMu' = [syscallThreadMu EXCEPT ![gS[k]] = @ \ {k}]
  /\ gPc' = [gPc EXCEPT ![k] = "idle"]
  /\ gS' = [gS EXCEPT ![k] = NoSP]
  /\ UNCHANGED <<stackVars, nextThread, thSub, thStack, thState, ctxThread, wPc, wReq,
                 wThread, gThread, accepted, replied, panicked, nonCtlVars>>


\* ------------------------------------------------- tracers and tracees

OSThreads == 1..NumOSThreads
\* No tracer.
NoOS == 0
\* The goroutines: the worker of the subprocess and one caller of
\* getSysmsgThread per context.
TrWorker == 0
TrGoroutines == {TrWorker} \cup Contexts
\* The traced threads: the syscall thread and the threads the worker clones.
SyscallThread == 0
TrThreads == 0..MaxClones

\* After initSyscallThread: the syscall thread exists and is detached.
InitTrace ==
  /\ trOS = [g \in TrGoroutines |-> 1]
  /\ trLocked = [g \in TrGoroutines |-> FALSE]
  /\ trTracer = [th \in TrThreads |-> NoOS]
  /\ trBy = [th \in TrThreads |-> TrWorker]
  /\ trWPc = "recv"
  /\ trWReq = TrWorker
  /\ trWNew = SyscallThread
  /\ trPc = [c \in Contexts |-> "idle"]
  /\ trGot = [c \in Contexts |-> SyscallThread]
  /\ trNext = 1

\* The scheduler moves a goroutine that has not locked its OS thread.
schedule(g, o) ==
  /\ panicked = ""
  /\ ~trLocked[g]
  /\ trOS[g] # o
  /\ trOS' = [trOS EXCEPT ![g] = o]
  /\ UNCHANGED <<trLocked, trTracer, trBy, trWPc, trWReq, trWNew, trPc, trGot, trNext,
                 panicked, nonTraceVars>>

\* runtime.LockOSThread.
LockOSThread(g) == trLocked' = [trLocked EXCEPT ![g] = TRUE]

\* runtime.UnlockOSThread.
UnlockOSThread(g) == trLocked' = [trLocked EXCEPT ![g] = FALSE]

\* thread.attach by g: PTRACE_ATTACH fails when the thread has a tracer.
attach(g, th) ==
  IF trTracer[th] = NoOS
    THEN /\ trTracer' = [trTracer EXCEPT ![th] = trOS[g]]
         /\ trBy' = [trBy EXCEPT ![th] = g]
         /\ UNCHANGED panicked
    ELSE /\ panicked' = "unable to attach"
         /\ UNCHANGED <<trTracer, trBy>>

\* A ptrace request or a wait by g on th: it fails unless g runs on the OS
\* thread that traces th.
ptrace(g, th, message) ==
  panicked' = IF trTracer[th] = trOS[g] THEN "" ELSE message

\* thread.detach by g.
detach(g, th) ==
  IF trTracer[th] = trOS[g]
    THEN /\ trTracer' = [trTracer EXCEPT ![th] = NoOS]
         /\ UNCHANGED panicked
    ELSE /\ panicked' = "can't detach new clone"
         /\ UNCHANGED trTracer

\* getSysmsgThread of context c: "s.requests <- r".
tracee_request(c) ==
  /\ panicked = ""
  /\ trPc[c] = "idle"
  /\ trNext + Cardinality({d \in Contexts : trPc[d] \in {"send", "recvReply"}}) <= MaxClones
  /\ trPc' = [trPc EXCEPT ![c] = "send"]
  /\ UNCHANGED <<trOS, trLocked, trTracer, trBy, trWPc, trWReq, trWNew, trGot, trNext,
                 panicked, nonTraceVars>>

\* The worker receives the request of c and enters
\* handlePtraceSyscallRequest: runtime.LockOSThread().
tracer_receive(c) ==
  /\ panicked = ""
  /\ trWPc = "recv"
  /\ trPc[c] = "send"
  /\ trPc' = [trPc EXCEPT ![c] = "recvReply"]
  /\ trWReq' = c
  /\ LockOSThread(TrWorker)
  /\ trWPc' = "attach"
  /\ UNCHANGED <<trOS, trTracer, trBy, trWNew, trGot, trNext, panicked, nonTraceVars>>

\* s.syscallThread.attach().
tracer_attach ==
  /\ panicked = ""
  /\ trWPc = "attach"
  /\ attach(TrWorker, SyscallThread)
  /\ trWPc' = IF trTracer[SyscallThread] = NoOS THEN "clone" ELSE trWPc
  /\ UNCHANGED <<trOS, trLocked, trWReq, trWNew, trPc, trGot, trNext, nonTraceVars>>

\* ptraceThread.clone(): the new thread is created with CLONE_PTRACE and
\* its tracer is the tracer of the syscall thread.
tracer_clone ==
  /\ panicked = ""
  /\ trWPc = "clone"
  /\ ptrace(TrWorker, SyscallThread, "error initializing first thread")
  /\ IF trTracer[SyscallThread] = trOS[TrWorker]
       THEN /\ trTracer' = [trTracer EXCEPT ![trNext] = trTracer[SyscallThread]]
            /\ trBy' = [trBy EXCEPT ![trNext] = TrWorker]
            /\ trWNew' = trNext
            /\ trNext' = trNext + 1
            /\ trWPc' = "wait"
       ELSE UNCHANGED <<trTracer, trBy, trWNew, trNext, trWPc>>
  /\ UNCHANGED <<trOS, trLocked, trWReq, trPc, trGot, nonTraceVars>>

\* t.wait(stopped) and the Tgkill of the new thread.
tracer_wait ==
  /\ panicked = ""
  /\ trWPc = "wait"
  /\ ptrace(TrWorker, trWNew, "error waiting for new clone")
  /\ trWPc' = IF trTracer[trWNew] = trOS[TrWorker] THEN "detachNew" ELSE trWPc
  /\ UNCHANGED <<trOS, trLocked, trTracer, trBy, trWReq, trWNew, trPc, trGot, trNext,
                 nonTraceVars>>

\* t.detach() without effect.
tracer_detachNew_skipped ==
  /\ panicked = ""
  /\ trWPc = "detachNew"
  /\ trWPc' = "reply"
  /\ UNCHANGED <<trOS, trLocked, trTracer, trBy, trWReq, trWNew, trPc, trGot, trNext,
                 panicked, nonTraceVars>>

\* t.detach() of the new thread.
tracer_detachNew ==
  /\ panicked = ""
  /\ trWPc = "detachNew"
  /\ detach(TrWorker, trWNew)
  /\ trWPc' = IF trTracer[trWNew] = trOS[TrWorker] THEN "reply" ELSE trWPc
  /\ UNCHANGED <<trOS, trLocked, trBy, trWReq, trWNew, trPc, trGot, trNext, nonTraceVars>>

\* "r.thread <- t", received by the requester at "p := <-r.thread".
tracer_reply ==
  /\ panicked = ""
  /\ trWPc = "reply"
  /\ trPc[trWReq] = "recvReply"
  /\ trGot' = [trGot EXCEPT ![trWReq] = trWNew]
  /\ trPc' = [trPc EXCEPT ![trWReq] = "lockOS"]
  /\ trWPc' = "detach"
  /\ UNCHANGED <<trOS, trLocked, trTracer, trBy, trWReq, trWNew, trNext, panicked,
                 nonTraceVars>>

\* The deferred calls of handlePtraceSyscallRequest: s.syscallThread.detach()
\* and runtime.UnlockOSThread(); the worker waits for the next request.
tracer_return ==
  /\ panicked = ""
  /\ trWPc = "detach"
  /\ detach(TrWorker, SyscallThread)
  /\ IF trTracer[SyscallThread] = trOS[TrWorker]
       THEN /\ UnlockOSThread(TrWorker)
            /\ trWPc' = "recv"
       ELSE UNCHANGED <<trLocked, trWPc>>
  /\ UNCHANGED <<trOS, trBy, trWReq, trWNew, trPc, trGot, trNext, nonTraceVars>>

\* getSysmsgThread after the receive: runtime.LockOSThread().
tracee_LockOSThread(c) ==
  /\ panicked = ""
  /\ trPc[c] = "lockOS"
  /\ LockOSThread(c)
  /\ trPc' = [trPc EXCEPT ![c] = "attach"]
  /\ UNCHANGED <<trOS, trTracer, trBy, trWPc, trWReq, trWNew, trGot, trNext, panicked,
                 nonTraceVars>>

\* p.attach().
tracee_attach(c) ==
  /\ panicked = ""
  /\ trPc[c] = "attach"
  /\ attach(c, trGot[c])
  /\ trPc' = [trPc EXCEPT ![c] = IF trTracer[trGot[c]] = NoOS THEN "cont" ELSE @]
  /\ UNCHANGED <<trOS, trLocked, trWPc, trWReq, trWNew, trGot, trNext, nonTraceVars>>

\* PTRACE_CONT and p.wait(stopped).
tracee_cont(c) ==
  /\ panicked = ""
  /\ trPc[c] = "cont"
  /\ ptrace(c, trGot[c], "ptrace cont failed")
  /\ trPc' = [trPc EXCEPT ![c] = IF trTracer[trGot[c]] = trOS[c] THEN "setup" ELSE @]
  /\ UNCHANGED <<trOS, trLocked, trTracer, trBy, trWPc, trWReq, trWNew, trGot, trNext,
                 nonTraceVars>>

\* The injected system calls (mmap, prctl, seccomp) and p.setRegs.
tracee_setup(c) ==
  /\ panicked = ""
  /\ trPc[c] = "setup"
  /\ ptrace(c, trGot[c], "ptrace set regs failed")
  /\ trPc' = [trPc EXCEPT ![c] = IF trTracer[trGot[c]] = trOS[c] THEN "detach" ELSE @]
  /\ UNCHANGED <<trOS, trLocked, trTracer, trBy, trWPc, trWReq, trWNew, trGot, trNext,
                 nonTraceVars>>

\* PTRACE_DETACH: the stub thread starts to run.
tracee_detach(c) ==
  /\ panicked = ""
  /\ trPc[c] = "detach"
  /\ detach(c, trGot[c])
  /\ trPc' = [trPc EXCEPT ![c] = IF trTracer[trGot[c]] = trOS[c] THEN "return" ELSE @]
  /\ UNCHANGED <<trOS, trLocked, trBy, trWPc, trWReq, trWNew, trGot, trNext, nonTraceVars>>

\* getSysmsgThread returns: the deferred runtime.UnlockOSThread().
tracee_return(c) ==
  /\ panicked = ""
  /\ trPc[c] = "return"
  /\ UnlockOSThread(c)
  /\ trPc' = [trPc EXCEPT ![c] = "idle"]
  /\ UNCHANGED <<trOS, trTracer, trBy, trWPc, trWReq, trWNew, trGot, trNext, panicked,
                 nonTraceVars>>

NextTrace ==
  \/ \E g \in TrGoroutines, o \in OSThreads : schedule(g, o)
  \/ \E c \in Contexts : tracee_request(c)
  \/ \E c \in Contexts : tracer_receive(c)
  \/ tracer_attach
  \/ tracer_clone
  \/ tracer_wait
  \/ tracer_detachNew
  \/ tracer_reply
  \/ tracer_return
  \/ \E c \in Contexts : tracee_LockOSThread(c)
  \/ \E c \in Contexts : tracee_attach(c)
  \/ \E c \in Contexts : tracee_cont(c)
  \/ \E c \in Contexts : tracee_setup(c)
  \/ \E c \in Contexts : tracee_detach(c)
  \/ \E c \in Contexts : tracee_return(c)


\* ------------------------------------------------ __export_syshandler

\* "mov $0xffff, %eax": a system call number seccomp does not allow.
SentinelSysno == 65535
\* The values of msg->interrupt and of msg->ret_addr.
InterruptFlags == {0, 1}
RetAddrs == {1, 2}

InitStub ==
  /\ stubPc = "idle"
  /\ stubType = "Syscall"
  /\ stubInterrupt = 0
  /\ stubRetAddr = 1
  /\ stubEax = 0
  /\ stubRip = 0
  /\ stubTypeIn = "Syscall"
  /\ stubTrace = <<>>
  /\ stubCalls = 0

\* "callq __syshandler" returns with the Message it left; the registers are
\* restored and rsp is set to the application stack.
syshandler_return(type, ret, eax) ==
  /\ panicked = ""
  /\ stubPc = "idle"
  /\ stubCalls < MaxStubCalls
  /\ stubCalls' = stubCalls + 1
  /\ stubType' = type
  /\ stubTypeIn' = type
  /\ stubRetAddr' = ret
  /\ stubEax' = eax
  /\ stubTrace' = <<>>
  /\ stubPc' = "cmpType"
  /\ UNCHANGED <<stubInterrupt, stubRip, panicked, nonStubVars>>

\* Another thread writes msg->interrupt while the stub thread runs.
sentry_interrupt(v) ==
  /\ panicked = ""
  /\ stubPc # "idle"
  /\ stubInterrupt # v
  /\ stubInterrupt' = v
  /\ UNCHANGED <<stubPc, stubType, stubRetAddr, stubEax, stubRip, stubTypeIn, stubTrace,
                 stubCalls, panicked, nonStubVars>>

\* "cmpl $kSYSMSG_SYSCALL, msg->type; jne skipsyscall".
stub_cmpType ==
  /\ panicked = ""
  /\ stubPc = "cmpType"
  /\ stubTrace' = Append(stubTrace, [op |-> "cmpType", val |-> 0])
  /\ stubPc' = IF stubType = "Syscall" THEN "syscall" ELSE "skipsyscall"
  /\ UNCHANGED <<stubType, stubInterrupt, stubRetAddr, stubEax, stubRip, stubTypeIn,
                 stubCalls, panicked, nonStubVars>>

\* "mov $0xffff, %eax; nop; syscall" without "jmp skipint".
stub_syscall_fallThrough(type) ==
  /\ panicked = ""
  /\ stubPc = "syscall"
  /\ stubEax' = SentinelSysno
  /\ stubTrace' = Append(stubTrace, [op |-> "syscall", val |-> SentinelSysno])
  /\ stubType' = type
  /\ stubPc' = "skipsyscall"
  /\ UNCHANGED <<stubInterrupt, stubRetAddr, stubRip, stubTypeIn, stubCalls, panicked,
                 nonStubVars>>

\* "mov $0xffff, %eax; nop; syscall; jmp skipint".  The system call is
\* refused and traps; the signal handler that runs meanwhile leaves any
\* event type in the Message.
stub_syscall(type) ==
  /\ panicked = ""
  /\ stubPc = "syscall"
  /\ stubEax' = SentinelSysno
  /\ stubTrace' = Append(stubTrace, [op |-> "syscall", val |-> SentinelSysno])
  /\ stubType' = type
  /\ stubPc' = "skipint"
  /\ UNCHANGED <<stubInterrupt, stubRetAddr, stubRip, stubTypeIn, stubCalls, panicked,
                 nonStubVars>>

\* skipsyscall: "cmpl $0, msg->interrupt; je skipint".
stub_cmpInterrupt ==
  /\ panicked = ""
  /\ stubPc = "skipsyscall"
  /\ stubTrace' = Append(stubTrace, [op |-> "cmpInterrupt", val |-> stubInterrupt])
  /\ stubPc' = IF stubInterrupt = 0 THEN "skipint" ELSE "movl"
  /\ UNCHANGED <<stubType, stubInterrupt, stubRetAddr, stubEax, stubRip, stubTypeIn,
                 stubCalls, panicked, nonStubVars>>

\* "movl $kSYSMSG_INTERRUPT, msg->type".
stub_setInterrupt ==
  /\ panicked = ""
  /\ stubPc = "movl"
  /\ stubType' = "Interrupt"
  /\ stubTrace' = Append(stubTrace, [op |-> "movl", val |-> 0])
  /\ stubPc' = "fault"
  /\ UNCHANGED <<stubInterrupt, stubRetAddr, stubEax, stubRip, stubTypeIn, stubCalls,
                 panicked, nonStubVars>>

\* ".byte FAULT_OPCODE": the trap; the signal handler that runs meanwhile
\* leaves any event type in the Message.
stub_fault(type) ==
  /\ panicked = ""
  /\ stubPc = "fault"
  /\ stubTrace' = Append(stubTrace, [op |-> "fault", val |-> 0])
  /\ stubType' = type
  /\ stubPc' = "skipint"
  /\ UNCHANGED <<stubInterrupt, stubRetAddr, stubEax, stubRip, stubTypeIn, stubCalls,
                 panicked, nonStubVars>>

\* skipint: "jmp *msg->ret_addr".
stub_jmp ==
  /\ panicked = ""
  /\ stubPc = "skipint"
  /\ stubTrace' = Append(stubTrace, [op |-> "jmp", val |-> stubRetAddr])
  /\ stubRip' = stubRetAddr
  /\ stubPc' = "idle"
  /\ UNCHANGED <<stubType, stubInterrupt, stubRetAddr, stubEax, stubTypeIn, stubCalls,
                 panicked, nonStubVars>>

NextStub ==
  \/ \E type \in EventTypes, ret \in RetAddrs, eax \in {0, 1} : syshandler_return(type, ret, eax)
  \/ \E v \in InterruptFlags : sentry_interrupt(v)
  \/ stub_cmpType
  \/ \E type \in EventTypes : stub_syscall(type)
  \/ stub_cmpInterrupt
  \/ stub_setInterrupt
  \/ \E type \in EventTypes : stub_fault(type)
  \/ stub_jmp

\* ------------------------------------------------- mutexes and channels

\* The goroutines: one caller each of Unmap, MapFile, newThread and
\* getSysmsgThread, one caller of unregisterContext for each context, and
\* the worker.
LkUnmap == <<"Unmap", 0>>
LkMapFile == <<"MapFile", 0>>
LkWorker == <<"worker", 0>>
LkRequesters == {<<"newThread", 0>>, <<"getSysmsgThread", 0>>}
LkUnregister(c) == <<"unregisterContext", c>>
LkGoroutines ==
  {LkUnmap, LkMapFile, LkWorker} \cup LkRequesters \cup {LkUnregister(c) : c \in Contexts}
\* A mutex nobody holds.
NoHolder == <<"none", 0>>

InitLocks ==
  /\ lkPc = [g \in LkGoroutines |-> IF g = LkWorker THEN "recv" ELSE "idle"]
  /\ lkMu = NoHolder
  /\ lkCMu = [c \in Contexts |-> NoHolder]
  /\ lkStMu = NoHolder
  /\ lkContexts = Contexts
  /\ lkTodo = {}
  /\ lkCur = 0
  /\ lkReq = NoHolder

\* The first statement of each operation that can block: s.mu.Lock() in
\* Unmap and unregisterContext, s.syscall in MapFile, "s.requests <- r" in
\* newThread and getSysmsgThread.
FirstBlocking(g) ==
  IF g[1] \in {"Unmap", "unregisterContext"} THEN "lockMu"
  ELSE IF g = LkMapFile THEN "syscall" ELSE "send"

\* A goroutine calls its operation.
lk_call(g) ==
  /\ panicked = ""
  /\ lkPc[g] = "idle"
  /\ lkPc' = [lkPc EXCEPT ![g] = FirstBlocking(g)]
  /\ UNCHANGED <<lkMu, lkCMu, lkStMu, lkContexts, lkTodo, lkCur, lkReq, panicked, nonLockVars>>

\* Unmap: s.mu.Lock() and the start of "for c := range s.contexts".
lk_Unmap_lock ==
  /\ panicked = ""
  /\ lkPc[LkUnmap] = "lockMu"
  /\ lkMu = NoHolder
  /\ lkMu' = LkUnmap
  /\ lkTodo' = lkContexts
  /\ lkPc' = [lkPc EXCEPT ![LkUnmap] = "range"]
  /\ UNCHANGED <<lkCMu, lkStMu, lkContexts, lkCur, lkReq, panicked, nonLockVars>>

\* Unmap: c.mu.Lock() for the next context of the loop.
lk_Unmap_lockContext(c) ==
  /\ panicked = ""
  /\ lkPc[LkUnmap] = "range"
  /\ c \in lkTodo
  /\ lkCMu[c] = NoHolder
  /\ lkCMu' = [lkCMu EXCEPT ![c] = LkUnmap]
  /\ lkCur' = c
  /\ lkTodo' = lkTodo \ {c}
  /\ lkPc' = [lkPc EXCEPT ![LkUnmap] = "context"]
  /\ UNCHANGED <<lkMu, lkStMu, lkContexts, lkReq, panicked, nonLockVars>>

\* Unmap: the test of the cached fault, "delete(s.contexts, c)" when it
\* lies in the range, and c.mu.Unlock().
lk_Unmap_unlockContext(hit) ==
  /\ panicked = ""
  /\ lkPc[LkUnmap] = "context"
  /\ lkContexts' = IF hit THEN lkContexts \ {lkCur} ELSE lkContexts
  /\ lkCMu' = [lkCMu EXCEPT ![lkCur] = NoHolder]
  /\ lkCur' = 0
  /\ lkPc' = [lkPc EXCEPT ![LkUnmap] = "range"]
  /\ UNCHANGED <<lkMu, lkStMu, lkTodo, lkReq, panicked, nonLockVars>>

\* Unmap after the loop, without s.mu.Unlock().
lk_Unmap_unlock_skipped ==
  /\ panicked = ""
  /\ lkPc[LkUnmap] = "range"
  /\ lkTodo = {}
  /\ lkPc' = [lkPc EXCEPT ![LkUnmap] = "syscall"]
  /\ UNCHANGED <<lkMu, lkCMu, lkStMu, lkContexts, lkTodo, lkCur, lkReq, panicked, nonLockVars>>

\* Unmap after the loop: s.mu.Unlock(), then the call of s.syscall.
lk_Unmap_unlock ==
  /\ panicked = ""
  /\ lkPc[LkUnmap] = "range"
  /\ lkTodo = {}
  /\ lkMu' = NoHolder
  /\ lkPc' = [lkPc EXCEPT ![LkUnmap] = "syscall"]
  /\ UNCHANGED <<lkCMu, lkStMu, lkContexts, lkTodo, lkCur, lkReq, panicked, nonLockVars>>

\* subprocess.syscall: s.syscallThreadMu.Lock().
lk_syscall_lock(g) ==
  /\ panicked = ""
  /\ lkPc[g] = "syscall"
  /\ lkStMu = NoHolder
  /\ lkStMu' = g
  /\ lkPc' = [lkPc EXCEPT ![g] = "inSyscall"]
  /\ UNCHANGED <<lkMu, lkCMu, lkContexts, lkTodo, lkCur, lkReq, panicked, nonLockVars>>

\* subprocess.syscall: the system call on the syscall thread and the
\* deferred s.syscallThreadMu.Unlock(); the caller returns.
lk_syscall_unlock(g) ==
  /\ panicked = ""
  /\ lkPc[g] = "inSyscall"
  /\ lkStMu' = NoHolder
  /\ lkPc' = [lkPc EXCEPT ![g] = "idle"]
  /\ UNCHANGED <<lkMu, lkCMu, lkContexts, lkTodo, lkCur, lkReq, panicked, nonLockVars>>

\* unregisterContext: s.mu.Lock().
lk_unregisterContext_lock(c) ==
  /\ panicked = ""
  /\ lkPc[LkUnregister(c)] = "lockMu"
  /\ lkMu = NoHolder
  /\ lkMu' = LkUnregister(c)
  /\ lkPc' = [lkPc EXCEPT ![LkUnregister(c)] = "locked"]
  /\ UNCHANGED <<lkCMu, lkStMu, lkContexts, lkTodo, lkCur, lkReq, panicked, nonLockVars>>

\* unregisterContext: "delete(s.contexts, c)", the decrement, and
\* s.mu.Unlock().
lk_unregisterContext_unlock(c) ==
  /\ panicked = ""
  /\ lkPc[LkUnregister(c)] = "locked"
  /\ lkContexts' = lkContexts \ {c}
  /\ lkMu' = NoHolder
  /\ lkPc' = [lkPc EXCEPT ![LkUnregister(c)] = "idle"]
  /\ UNCHANGED <<lkCMu, lkStMu, lkTodo, lkCur, lkReq, panicked, nonLockVars>>

\* "s.requests <- r" meets "for req := range requests": the requester goes
\* on to "<-r.thread", the worker enters handlePtraceSyscallRequest.
lk_worker_receive(r) ==
  /\ panicked = ""
  /\ lkPc[LkWorker] = "recv"
  /\ lkPc[r] = "send"
  /\ lkReq' = r
  /\ lkPc' = [lkPc EXCEPT ![LkWorker] = "lock", ![r] = "recvReply"]
  /\ UNCHANGED <<lkMu, lkCMu, lkStMu, lkContexts, lkTodo, lkCur, panicked, nonLockVars>>

\* handlePtraceSyscallRequest: s.syscallThreadMu.Lock(), then the clone and
\* the set-up of the new thread.
lk_worker_lock ==
  /\ panicked = ""
  /\ lkPc[LkWorker] = "lock"
  /\ lkStMu = NoHolder
  /\ lkStMu' = LkWorker
  /\ lkPc' = [lkPc EXCEPT ![LkWorker] = "reply"]
  /\ UNCHANGED <<lkMu, lkCMu, lkContexts, lkTodo, lkCur, lkReq, panicked, nonLockVars>>

\* "r.thread <- t" meets "<-r.thread" of the requester.
lk_worker_reply ==
  /\ panicked = ""
  /\ lkPc[LkWorker] = "reply"
  /\ lkPc[lkReq] = "recvReply"
  /\ lkPc' = [lkPc EXCEPT ![LkWorker] = "unlock", ![lkReq] = "attach"]
  /\ UNCHANGED <<lkMu, lkCMu, lkStMu, lkContexts, lkTodo, lkCur, lkReq, panicked, nonLockVars>>

\* handlePtraceSyscallRequest returns: the deferred
\* s.syscallThreadMu.Unlock(); the worker waits for the next request.
lk_worker_unlock ==
  /\ panicked = ""
  /\ lkPc[LkWorker] = "unlock"
  /\ lkStMu' = NoHolder
  /\ lkReq' = NoHolder
  /\ lkPc' = [lkPc EXCEPT ![LkWorker] = "recv"]
  /\ UNCHANGED <<lkMu, lkCMu, lkContexts, lkTodo, lkCur, panicked, nonLockVars>>

\* The requester attaches the thread it received and returns.
lk_request_return(r) ==
  /\ panicked = ""
  /\ lkPc[r] = "attach"
  /\ lkPc' = [lkPc EXCEPT ![r] = "idle"]
  /\ UNCHANGED <<lkMu, lkCMu, lkStMu, lkContexts, lkTodo, lkCur, lkReq, panicked, nonLockVars>>

NextLocks ==
  \/ \E g \in LkGoroutines \ {LkWorker} : lk_call(g)
  \/ lk_Unmap_lock
  \/ \E c \in Contexts : lk_Unmap_lockContext(c)
  \/ \E hit \in BOOLEAN : lk_Unmap_unlockContext(hit)
  \/ lk_Unmap_unlock
  \/ \E g \in {LkUnmap, LkMapFile} : lk_syscall_lock(g)
  \/ \E g \in {LkUnmap, LkMapFile} : lk_syscall_unlock(g)
  \/ \E c \in Contexts : lk_unregisterContext_lock(c)
  \/ \E c \in Contexts : lk_unregisterContext_unlock(c)
  \/ \E r \in LkRequesters : lk_worker_receive(r)
  \/ lk_worker_lock
  \/ lk_worker_reply
  \/ lk_worker_unlock
  \/ \E r \in LkRequesters : lk_request_return(r)

\* -------------------------------------------------- the specifications

Init ==
  /\ InitPool
  /\ InitSys
  /\ InitSwitch
  /\ InitStack
  /\ InitCtl
  /\ callSeq = NoCall
  /\ thReq = [t \in Threads |-> NewThreadCaller]
  /\ InitWait
  /\ InitTrace
  /\ InitStub
  /\ InitLocks
  /\ panicked = ""

\* ---------------------------------------------------------- thread.wait

SIGKILL == 9
SIGSTOP == 19
PTRACE_EVENT_CLONE == 3
PTRACE_EVENT_EXIT == 6

\* What Wait4 can report about the traced thread: a stop with its signal and
\* trap cause, an exit, or a death by a signal.
WaitStatuses ==
  [kind : {"stopped"}, sig : {0, SIGTRAP, SIGSTOP},
   cause : {0, PTRACE_EVENT_CLONE, PTRACE_EVENT_EXIT}]
    \cup [kind : {"exited"}, sig : {0}, cause : {0}]
    \cup [kind : {"signaled"}, sig : {SIGKILL, 11}, cause : {0}]

\* The exit statuses getEventMessage can report at an exit event.
ExitStatuses == {st \in WaitStatuses : st.kind # "stopped"}

\* What Wait4 returns besides the status.
Wait4Results == {"ok", "EINTR", "EAGAIN", "err", "otherTid"}

\* "err == unix.EINTR || err == unix.EAGAIN".
waitAgain(res) == res \in {"EINTR", "EAGAIN"}

\* The signal wait(stopped) returns for a stop, without the trap cause.
stopSignal_noCause(status) == status.sig

\* The signal wait(stopped) returns for a stop: a trap is re-encoded with
\* its cause, "stopSig | unix.Signal(status.TrapCause()<<8)".
stopSignal(status) ==
  IF status.sig = SIGTRAP THEN SIGTRAP + status.cause * 256 ELSE status.sig

\* thread.dumpAndPanic.
dumpAndPanic(message) ==
  /\ waitLog' = Append(waitLog, "dump")
  /\ panicked' = message

\* A call of wait(outcome).
wait_call(outcome) ==
  /\ panicked = ""
  /\ waitPc = "idle"
  /\ waitsDone < MaxWaits
  /\ waitPc' = "wait4"
  /\ waitOutcome' = outcome
  /\ waitRetries' = 0
  /\ waitsDone' = waitsDone + 1
  /\ waitCaller' = "other"
  /\ UNCHANGED <<waitRet, waitLog, panicked, nonWaitVars>>

\* thread.attach: PTRACE_ATTACH, then t.wait(stopped).
attach_call ==
  /\ panicked = ""
  /\ waitPc = "idle"
  /\ waitsDone < MaxWaits
  /\ waitPc' = "wait4"
  /\ waitOutcome' = "stopped"
  /\ waitRetries' = 0
  /\ waitsDone' = waitsDone + 1
  /\ waitCaller' = "attach"
  /\ UNCHANGED <<waitRet, waitLog, panicked, nonWaitVars>>

\* One turn of the loop of wait: Wait4 and the test of what it reported.
wait_wait4(res, status) ==
  /\ panicked = ""
  /\ waitPc = "wait4"
  /\ (waitAgain(res) \/ (res = "ok" /\ waitOutcome = "stopped" /\ status.kind = "stopped"
                                  /\ status.sig = 0))
       => waitRetries < MaxStops
  /\ IF waitAgain(res)
       THEN /\ waitRetries' = waitRetries + 1
            /\ UNCHANGED <<waitPc, waitRet, waitLog, panicked>>
     ELSE IF res = "err"
       THEN /\ panicked' = "ptrace wait failed"
            /\ UNCHANGED <<waitPc, waitRet, waitRetries, waitLog>>
     ELSE IF res = "otherTid"
       THEN /\ panicked' = "ptrace wait returned"
            /\ UNCHANGED <<waitPc, waitRet, waitRetries, waitLog>>
     ELSE IF waitOutcome = "stopped"
       THEN IF status.kind # "stopped"
              THEN /\ dumpAndPanic("ptrace status unexpected: wanted stopped")
                   /\ UNCHANGED <<waitPc, waitRet, waitRetries>>
            ELSE IF status.sig = 0
              THEN /\ waitRetries' = waitRetries + 1
                   /\ UNCHANGED <<waitPc, waitRet, waitLog, panicked>>
            ELSE IF status.sig = SIGTRAP /\ status.cause = PTRACE_EVENT_EXIT
              THEN /\ waitPc' = "exit"
                   /\ UNCHANGED <<waitRet, waitRetries, waitLog, panicked>>
            ELSE /\ waitPc' = "returned"
                 /\ waitRet' = stopSignal(status)
                 /\ UNCHANGED <<waitRetries, waitLog, panicked>>
       ELSE IF status.kind = "stopped"
              THEN /\ dumpAndPanic("ptrace status unexpected: wanted exited")
                   /\ UNCHANGED <<waitPc, waitRet, waitRetries>>
              ELSE /\ waitPc' = "returned"
                   /\ waitRet' = IF status.kind = "exited" THEN status.sig ELSE -1
                   /\ UNCHANGED <<waitRetries, waitLog, panicked>>
  /\ UNCHANGED <<waitOutcome, waitsDone, waitCaller, nonWaitVars>>

\* unexpectedStubExit, with the exit status getEventMessage reported.  When
\* the traced process was killed by SIGKILL a warning is logged and SIGKILL
\* is sent to the tracer's own process; the process either dies of it, or
\* the signal has no effect (Tgkill fails, or the process is one the kernel
\* does not kill) and the function goes on to dumpAndPanic.
unexpectedStubExit(status, dies) ==
  /\ panicked = ""
  /\ waitPc = "exit"
  /\ IF status.kind = "signaled" /\ status.sig = SIGKILL
       THEN IF dies
              THEN /\ waitLog' = Append(waitLog, "warning: killed by SIGKILL")
                   /\ waitPc' = "killed"
                   /\ UNCHANGED panicked
              ELSE /\ waitLog' = waitLog \o <<"warning: killed by SIGKILL", "dump">>
                   /\ panicked' = "wait failed: the process exited"
                   /\ UNCHANGED waitPc
       ELSE /\ dumpAndPanic("wait failed: the process exited")
            /\ UNCHANGED waitPc
  /\ UNCHANGED <<waitOutcome, waitRet, waitRetries, waitsDone, waitCaller, nonWaitVars>>

\* wait returns to its caller.
wait_return ==
  /\ panicked = ""
  /\ waitPc = "returned"
  /\ waitCaller = "other"
  /\ waitPc' = "idle"
  /\ UNCHANGED <<waitOutcome, waitRet, waitRetries, waitsDone, waitLog, waitCaller, panicked,
                 nonWaitVars>>

\* thread.attach after wait returned: "sig != unix.SIGSTOP" panics,
\* otherwise t.init() and attach returns.
attach_return ==
  /\ panicked = ""
  /\ waitPc = "returned"
  /\ waitCaller = "attach"
  /\ IF waitRet # SIGSTOP
       THEN /\ panicked' = "wait failed: expected SIGSTOP"
            /\ UNCHANGED <<waitPc, waitCaller, waitLog>>
       ELSE /\ waitPc' = "idle"
            /\ waitCaller' = "other"
            /\ waitLog' = Append(waitLog, "init")
            /\ UNCHANGED panicked
  /\ UNCHANGED <<waitOutcome, waitRet, waitRetries, waitsDone, nonWaitVars>>

NextWait ==
  \/ \E outcome \in {"stopped", "killed"} : wait_call(outcome)
  \/ \E res \in Wait4Results, status \in WaitStatuses : wait_wait4(res, status)
  \/ \E status \in ExitStatuses, dies \in BOOLEAN : unexpectedStubExit(status, dies)
  \/ wait_return
  \/ attach_call
  \/ attach_return

SpecWait == Init /\ [][NextWait]_vars

SpecTrace == Init /\ [][NextTrace]_vars

SpecStub == Init /\ [][NextStub]_vars

SpecLocks == Init /\ [][NextLocks]_vars

\* The life cycle of subprocesses in the pool.
Next ==
  \/ \E sp \in Subprocs : newSubprocess(sp)
  \/ \E s \in Subprocs : Release(s)
  \/ \E s \in Subprocs : Release_scan(s)
  \/ \E s \in Subprocs : Release_munmap(s)
  \/ \E s \in Subprocs : Release_release(s)
  \/ \E c \in Contexts, s \in Subprocs : registerContext(c, s)
  \/ \E c \in Contexts : unregisterContext_locked(c)
  \/ \E c \in Contexts : unregisterContext_check(c)

Spec == Init /\ [][Next]_vars

\* The life cycle of the first subprocess together with MapFile.
FirstSubproc == {s \in Subprocs : s = 1}

NextMap ==
  \/ \E sp \in FirstSubproc : newSubprocess(sp)
  \/ \E s \in FirstSubproc : Release(s)
  \/ \E s \in FirstSubproc : Release_scan(s)
  \/ \E s \in FirstSubproc : Release_munmap(s)
  \/ \E s \in FirstSubproc : Release_release(s)
  \/ \E c \in Contexts, s \in FirstSubproc : registerContext(c, s)
  \/ \E c \in Contexts : unregisterContext_locked(c)
  \/ \E c \in Contexts : unregisterContext_check(c)
  \/ \E s \in FirstSubproc, addr \in NonStubAddrs, length \in 1..maximumUserAddress :
        MapFile(s, addr, length)

SpecMap == Init /\ [][NextMap]_vars

\* The life cycle of the first subprocess under fair scheduling: a Release
\* goroutine that can take a step eventually takes it, and a call of
\* unregisterContext that has unlocked s.mu eventually reaches its check.
NextRelease ==
  \/ \E sp \in FirstSubproc : newSubprocess(sp)
  \/ \E s \in FirstSubproc : Release(s)
  \/ \E s \in FirstSubproc : Release_scan(s)
  \/ \E s \in FirstSubproc : Release_munmap(s)
  \/ \E s \in FirstSubproc : Release_release(s)
  \/ \E c \in Contexts, s \in FirstSubproc : registerContext(c, s)
  \/ \E c \in Contexts : unregisterContext_locked(c)
  \/ \E c \in Contexts : unregisterContext_check(c)

FairRelease ==
  /\ \A s \in FirstSubproc :
       /\ WF_vars(Release_scan(s))
       /\ WF_vars(Release_munmap(s))
       /\ WF_vars(Release_release(s))
  /\ \A c \in Contexts : WF_vars(unregisterContext_check(c))

SpecRelease == Init /\ [][NextRelease]_vars /\ FairRelease

\* The fault cache of the contexts and Unmap.
NextCache ==
  \/ \E sp \in Subprocs : newSubprocess(sp)
  \/ \E s \in Subprocs, addr \in Addrs, length \in 0..maximumUserAddress : Unmap_scan(s, addr, length)
  \/ Unmap_munmap
  \/ \E c \in Contexts, s \in Subprocs : registerContext(c, s)
  \/ \E c \in Contexts, addr \in NonStubAddrs : recordFault(c, addr)
  \/ \E c \in Contexts : unregisterContext_locked(c)
  \/ \E c \in Contexts : unregisterContext_check(c)

SpecCache == Init /\ [][NextCache]_vars

\* MapFile and Unmap on the first subprocess, with contexts that fault.
NextMapUnmap ==
  \/ \E sp \in FirstSubproc : newSubprocess(sp)
  \/ \E s \in FirstSubproc, addr \in NonStubAddrs, length \in 1..maximumUserAddress :
        MapFile(s, addr, length)
  \/ \E s \in FirstSubproc, addr \in Addrs, length \in 0..maximumUserAddress : Unmap_scan(s, addr, length)
  \/ Unmap_munmap
  \/ \E c \in Contexts, s \in FirstSubproc : registerContext(c, s)
  \/ \E c \in Contexts, addr \in NonStubAddrs : recordFault(c, addr)
  \/ \E c \in Contexts : unregisterContext_locked(c)
  \/ \E c \in Contexts : unregisterContext_check(c)

SpecMapUnmap == Init /\ [][NextMapUnmap]_vars

\* Injected system calls on one traced thread.
NextSyscall ==
  \/ \E sysno \in Sysnos, arg \in SysArgs : syscallIgnoreInterrupt_call(sysno, arg)
  \/ syscall_setRegs
  \/ \E sig \in StopSignals, ret \in KernelReturns : syscall_cont(sig, ret)
  \/ syscall_getRegs
  \/ syscallIgnoreInterrupt_done

SpecSyscall == Init /\ [][NextSyscall]_vars

\* Round trips of one context through switchToApp.
NextSwitch ==
  \/ \E threadErr \in BOOLEAN, pending \in BOOLEAN : switchToApp_enter(threadErr, pending)
  \/ \E type \in EventTypes, err \in MsgErrs : stub_done(type, err)
  \/ \E fpu \in FpuResults, spurious \in BOOLEAN : switchToApp_classify(fpu, spurious)
  \/ switchToApp_return

SpecSwitch == Init /\ [][NextSwitch]_vars

\* The control plane: thread requests of the contexts and of newThread, the
\* workers, and injected system calls, with the first subprocess released
\* and handed out again.
NextWorker ==
  \/ \E sp \in Subprocs : newSubprocess(sp)
  \/ \E s \in FirstSubproc : Release(s)
  \/ \E s \in FirstSubproc : Release_scan(s)
  \/ \E s \in FirstSubproc : Release_munmap(s)
  \/ \E s \in FirstSubproc : Release_release(s)
  \/ \E c \in Contexts, s \in Subprocs : getSysmsgThread_begin(c, s)
  \/ \E s \in Subprocs : newThread_begin(s)
  \/ \E s \in Subprocs, r \in Requesters : worker_receive(s, r)
  \/ \E s \in Subprocs : handlePtraceSyscallRequest_lock(s)
  \/ \E s \in Subprocs : handlePtraceSyscallRequest_attach(s)
  \/ \E s \in Subprocs, stopped \in BOOLEAN : handlePtraceSyscallRequest_clone(s, stopped)
  \/ \E s \in Subprocs : handlePtraceSyscallRequest_reply(s)
  \/ \E s \in Subprocs : handlePtraceSyscallRequest_return(s)
  \/ \E c \in Contexts, fpuOk \in BOOLEAN : getSysmsgThread_finish(c, fpuOk)
  \/ \E c \in Contexts : getSysmsgThread_return(c)
  \/ newThread_finish
  \/ \E k \in Contexts, s \in Subprocs : subprocess_syscall_lock(k, s)
  \/ \E k \in Contexts : subprocess_syscall_unlock(k)

SpecWorker == Init /\ [][NextWorker]_vars

\* Thread requests only: the contexts calling getSysmsgThread on the
\* subprocesses, newThread, and the workers.
NextThreads ==
  \/ \E sp \in Subprocs : newSubprocess(sp)
  \/ \E c \in Contexts, s \in Subprocs : getSysmsgThread_begin(c, s)
  \/ \E s \in Subprocs : newThread_begin(s)
  \/ \E s \in Subprocs, r \in Requesters : worker_receive(s, r)
  \/ \E s \in Subprocs : handlePtraceSyscallRequest_lock(s)
  \/ \E s \in Subprocs : handlePtraceSyscallRequest_attach(s)
  \/ \E s \in Subprocs, stopped \in BOOLEAN : handlePtraceSyscallRequest_clone(s, stopped)
  \/ \E s \in Subprocs : handlePtraceSyscallRequest_reply(s)
  \/ \E s \in Subprocs : handlePtraceSyscallRequest_return(s)
  \/ \E c \in Contexts, fpuOk \in BOOLEAN : getSysmsgThread_finish(c, fpuOk)
  \/ \E c \in Contexts : getSysmsgThread_return(c)
  \/ newThread_finish

SpecThreads == Init /\ [][NextThreads]_vars

\* The worker goroutine keeps running: it takes the next step of the request
\* it handles, and a requester blocked in its send on s.requests is received
\* once the worker is back at the head of its loop (the senders blocked on a
\* channel are served in the order of their arrival).
FairThreads ==
  /\ \A s \in Subprocs :
       /\ \A r \in Requesters : SF_vars(worker_receive(s, r))
       /\ WF_vars(handlePtraceSyscallRequest_lock(s))
       /\ WF_vars(handlePtraceSyscallRequest_attach(s))
       /\ WF_vars(\E stopped \in BOOLEAN : handlePtraceSyscallRequest_clone(s, stopped))
       /\ WF_vars(handlePtraceSyscallRequest_reply(s))
       /\ WF_vars(handlePtraceSyscallRequest_return(s))

\* getSysmsgThread and newThread called only while fewer than MaxThreads
\* threads have been requested, so that every request that is sent can be
\* received.
getSysmsgThread_begin_bounded(c, s) ==
  /\ (ctxThread[c] = NoThread \/ isStale(ctxThread[c], s)) => RequestsStarted < MaxThreads
  /\ getSysmsgThread_begin(c, s)

newThread_begin_bounded(s) ==
  /\ RequestsStarted < MaxThreads
  /\ newThread_begin(s)

NextThreadsFair ==
  \/ \E sp \in Subprocs : newSubprocess(sp)
  \/ \E c \in Contexts, s \in Subprocs : getSysmsgThread_begin_bounded(c, s)
  \/ \E s \in Subprocs : newThread_begin_bounded(s)
  \/ \E s \in Subprocs, r \in Requesters : worker_receive(s, r)
  \/ \E s \in Subprocs : handlePtraceSyscallRequest_lock(s)
  \/ \E s \in Subprocs : handlePtraceSyscallRequest_attach(s)
  \/ \E s \in Subprocs, stopped \in BOOLEAN : handlePtraceSyscallRequest_clone(s, stopped)
  \/ \E s \in Subprocs : handlePtraceSyscallRequest_reply(s)
  \/ \E s \in Subprocs : handlePtraceSyscallRequest_return(s)
  \/ \E c \in Contexts, fpuOk \in BOOLEAN : getSysmsgThread_finish(c, fpuOk)
  \/ \E c \in Contexts : getSysmsgThread_return(c)
  \/ newThread_finish

SpecThreadsFair == Init /\ [][NextThreadsFair]_vars /\ FairThreads

\* ------------------------------------------------------------- claims

\* C1: in every reachable state every subprocess has a non-negative count of
\* active contexts and is in the available set of the pool exactly when it
\* is marked released and its count of active contexts is 0.
C1_AvailableIffReleasedIdle ==
  \A s \in Subprocs :
    /\ numContexts[s] >= 0
    /\ (s \in available) <=> (released[s] /\ numContexts[s] = 0)

\* No Release goroutine and no unregisterContext call is under way.
Quiescent ==
  /\ \A s \in Subprocs : relPc[s] = "idle"
  /\ \A c \in Contexts : unregPc[c] = "idle"

\* The statement of C1 restricted to the states in which no operation is
\* under way.
C1_QuiescentAvailableIffReleasedIdle == Quiescent => C1_AvailableIffReleasedIdle

\* A step of newSubprocess that returns sp.
HandedOut(sp) == holders'[sp] = holders[sp] + 1

\* A step that creates no subprocess and starts no worker.
NothingCreated == exists' = exists /\ workers' = workers

\* A is the only subprocess created so far; two contexts were bound to it
\* and no context is bound to it any more.
TwoBoundBothUnregistered(A) ==
  /\ exists[A]
  /\ \A q \in Subprocs \ {A} : ~exists[q]
  /\ cycle[A] = "two"
  /\ \A c \in Contexts : bound[c] # A

C8_HandedOutUnmapped ==
  [][\A sp \in Subprocs : HandedOut(sp) => mapped'[sp] = {}]_vars

RestartCodes == {ERESTARTSYS, ERESTARTNOINTR, ERESTARTNOHAND}

C3_RetryOnlyOnRestartCodes ==
  /\ sysPc = "returned" =>
       /\ Len(sysOutcomes) >= 1
       /\ sysRet = sysOutcomes[Len(sysOutcomes)]
       /\ sysRet.err \notin RestartCodes
       /\ \A i \in 1..(Len(sysOutcomes) - 1) : sysOutcomes[i].err \in RestartCodes
  /\ sysPc \in {"setRegs", "cont"} =>
       \A i \in DOMAIN sysOutcomes : sysOutcomes[i].err \in RestartCodes
  /\ Len(sysExecuted) \in {Len(sysOutcomes), Len(sysOutcomes) + 1}
  /\ \A i \in DOMAIN sysExecuted :
       sysExecuted[i] = [ip |-> initRegs.ip, sysno |-> sysReq.sysno, arg |-> sysReq.arg]

\* Witness of C3: a call returned an error that is no restart code after the
\* kernel answered two restart codes, and three system calls were executed.
C3_Witness ==
  /\ sysPc = "returned"
  /\ Len(sysOutcomes) = 3
  /\ Len(sysExecuted) = 3
  /\ sysOutcomes[1].err = ERESTARTSYS
  /\ sysOutcomes[2].err = ERESTARTNOHAND
  /\ sysRet = [rval |-> 0, err |-> 4]

\* A round trip through the stub has completed: switchToApp read the Message
\* and returned or aborted.
RoundTripCompleted == swPc \in {"returned", "aborted"} /\ swObs # NoObs

C5_InBandErrorAlwaysAborts ==
  RoundTripCompleted /\ swObs.err # 0 => swPc = "aborted" /\ panicked # ""

\* The threads of s that a thread request produced and that were not
\* destroyed.
LiveThreads(s) == {t \in Threads : thState[t] = "live" /\ thSub[t] = s}

\* The stack slot IDs of s that a Get can return from the IDs put back.
CachedIDs(s) == {sysmsgStackPool[s].cache[i] : i \in DOMAIN sysmsgStackPool[s].cache}

\* C6: in every reachable state of a subprocess no two live threads (the
\* syscall thread and the threads produced by thread requests) hold the same
\* stack slot ID, every held ID is in [0, maxGuestThreads), and no ID held
\* by a live thread can be handed out again.
C6_StackSlotsUnique ==
  \A s \in Subprocs :
    /\ \A t1, t2 \in LiveThreads(s) : t1 # t2 => thStack[t1] # thStack[t2]
    /\ \A t \in LiveThreads(s) :
         /\ thStack[t] \notin syscallThreadStack[s]
         /\ thStack[t] \in 0..(maxGuestThreads - 1)
         /\ thStack[t] \notin CachedIDs(s)
         /\ thStack[t] < sysmsgStackPool[s].next
    /\ \A id \in syscallThreadStack[s] :
         /\ id \in 0..(maxGuestThreads - 1)
         /\ id \notin CachedIDs(s)
         /\ id < sysmsgStackPool[s].next

C10_SyscallThreadExclusive ==
  \A s \in Subprocs :
    /\ Cardinality(stUsers[s]) <= 1
    /\ Cardinality(syscallThreadMu[s]) <= 1
    /\ stUsers[s] \subseteq syscallThreadMu[s]

\* Witness of C10: a context runs an injected system call on a subprocess
\* while the worker of that subprocess has accepted a request and waits for
\* the mutex.
C10_Witness ==
  \E s \in Subprocs, k \in Contexts :
    /\ stUsers[s] = {k}
    /\ gPc[k] = "syscall"
    /\ wPc[s] = "lock"

\* C11: when an interrupt is already pending as switchToApp arms interrupt
\* delivery, the call returns (not a syscall, not patchable, no error) with
\* the signal info of the context set to the interrupt signal; it does not
\* write the registers or the fast-path hint into the Message, leaves the
\* Message state Done and does not wait for the stub, so the guest does not
\* run.
C11_PendingInterruptShortCircuits ==
  [][(swPc = "idle" /\ swPath' = "pending" /\ swPc' # "idle") =>
       /\ swPc' = "returned"
       /\ swRet' = SwReturn(FALSE, FALSE)
       /\ signalInfo' = "SignalInterrupt"
       /\ msgState = "Done" /\ msgState' = "Done"
       /\ UNCHANGED <<msgRegs, msgFastPath, msgType, msgErr>>]_vars

\* Witness of C11: after a round trip through the guest a later call found
\* an interrupt pending and returned; the Message still holds the registers
\* the stub wrote.
C11_Witness ==
  /\ swPath = "pending"
  /\ swPc = "returned"
  /\ swRet = SwReturn(FALSE, FALSE)
  /\ signalInfo = "SignalInterrupt"
  /\ msgRegs = "stub"
  /\ msgState = "Done"

\* What getSysmsgThread(c) on gS[c] has returned, while its caller has not
\* gone on: a thread, and that thread is c.sysmsgThread and belongs to the
\* subprocess the call was made on.
ReturnedBoundThread(c) ==
  /\ gThread[c] # NoThread
  /\ ctxThread[c] = gThread[c]
  /\ thSub[gThread[c]] = gS[c]

\* C12: getSysmsgThread(c) on s returns the existing thread of the context
\* without a thread request when that thread belongs to s; when it belongs
\* to another subprocess the call destroys it and requests a new one; after
\* every successful return c.sysmsgThread is the returned thread and its
\* owner is s.
C12_GetSysmsgThreadBinds ==
  /\ [](\A c \in Contexts :
          gPc[c] \in {"retExisting", "retNew"} => ReturnedBoundThread(c))
  /\ [][\A c \in Contexts :
          (gPc[c] = "idle" /\ ctxThread[c] # NoThread /\ gPc'[c] \notin {"idle", "syscall"}) =>
            IF thSub[ctxThread[c]] = gS'[c]
              THEN /\ gPc'[c] = "retExisting"
                   /\ gThread'[c] = ctxThread[c]
                   /\ UNCHANGED <<ctxThread, thState, sysmsgStackPool, nextThread, accepted>>
              ELSE /\ gPc'[c] = "send"
                   /\ thState'[ctxThread[c]] = "destroyed"]_vars
  /\ [][\A c \in Contexts :
          (gPc[c] = "attach" /\ gPc'[c] = "retNew") =>
            /\ gThread[c] # ctxThread[c]
            /\ ctxThread'[c] = gThread[c]
            /\ thState'[gThread[c]] = "live"]_vars

\* Witness of C12: a context whose thread belonged to subprocess 1 called
\* getSysmsgThread on subprocess 2; the old thread is destroyed and the call
\* has returned a new thread of subprocess 2, and the other context got its
\* existing thread back.
C12_Witness ==
  \E c, d \in Contexts :
    /\ gPc[c] = "retNew"
    /\ gS[c] = 2
    /\ thState[1] = "destroyed"
    /\ thSub[1] = 1
    /\ ReturnedBoundThread(c)
    /\ gPc[d] = "retExisting"
    /\ ReturnedBoundThread(d)

\* A context holds a cached fault of the subprocess s at an address of ar.
CachedIn(c, s, ar) == lastFaultSP[c] = s /\ RangeContains(ar, lastFaultAddr[c])

C15_SigkillExitDoesNotPanic ==
  [][\A status \in ExitStatuses, dies \in BOOLEAN :
       unexpectedStubExit(status, dies) =>
         IF status.kind = "signaled" /\ status.sig = SIGKILL
           THEN /\ panicked' = ""
                /\ waitLog' = Append(waitLog, "warning: killed by SIGKILL")
           ELSE /\ panicked' = "wait failed: the process exited"
                /\ waitLog' = Append(waitLog, "dump")]_vars

\* C16: a destroyed thread is never reused: between calls no context is bound
\* to a destroyed thread, getSysmsgThread never returns a destroyed thread,
\* and destroy is never invoked on a thread that is already destroyed; this
\* includes the calls that come after a call that destroyed the stale thread
\* and then returned an error.
C16_DestroyedNeverReused ==
  /\ [](\A c \in Contexts :
          (gPc[c] = "idle" /\ ctxThread[c] # NoThread) => thState[ctxThread[c]] = "live")
  /\ [](\A c \in Contexts :
          gPc[c] \in {"retExisting", "retNew"} => thState[gThread[c]] = "live")
  /\ [][\A c \in Contexts, s \in Subprocs :
          (getSysmsgThread_begin(c, s) /\ isStale(ctxThread[c], s))
            => thState[ctxThread[c]] = "live"]_vars

\* C14: under every interleaving of Unmap([a,b)) on s with fault handling,
\* once the munmap has taken effect no context holds a cached fault of s at
\* an address in [a,b) that was recorded before; a fault cached between the
\* scan of Unmap and its munmap does not survive.  Stated for the contexts of
\* s's context set, which are the ones the scan visits.
C14_NoStaleFaultAfterUnmap ==
  [][Unmap_munmap =>
       \A c \in contexts'[um.sp] :
         ~(lastFaultSP'[c] = um.sp /\ RangeContains(um.ar, lastFaultAddr'[c]))]_vars

\* Release was called on s in its current life in the pool.
ReleaseCalled(s) == released[s] \/ relPc[s] # "idle"

\* No context is bound to s or inside unregisterContext(s).
AllUnregistered(s) == numContexts[s] = 0 /\ \A c \in Contexts : bound[c] # s

\* C18, first half: a subprocess on which Release was called is not in the
\* available set while its count of bound contexts is above zero.
C18_ReleasedStaysOutWhileBound ==
  \A s \in Subprocs : (ReleaseCalled(s) /\ numContexts[s] > 0) => s \notin available

\* C18, second half: once Release has been called on s and every bound
\* context has been unregistered, s is eventually in the available set.
C18_ReleasedEventuallyAvailable ==
  \A s \in Subprocs : (ReleaseCalled(s) /\ AllUnregistered(s)) ~> (s \in available)

\* C18: both halves.
C18_ReleaseHandBack ==
  []C18_ReleasedStaysOutWhileBound /\ C18_ReleasedEventuallyAvailable

\* The number of requests of r a worker has received, and the number of
\* replies sent to r.
Occurrences(seq, r) == Cardinality({i \in DOMAIN seq : seq[i] = r})
RequestsAccepted(r) ==
  LET sum[s \in 0..NumSubprocesses] ==
        IF s = 0 THEN 0 ELSE sum[s - 1] + Occurrences(accepted[s], r)
  IN  sum[NumSubprocesses]
RepliesReceived(r) ==
  LET sum[s \in 0..NumSubprocesses] ==
        IF s = 0 THEN 0 ELSE sum[s - 1] + Occurrences(replied[s], r)
  IN  sum[NumSubprocesses]

\* Every request has got exactly one reply, except the request its
\* requester is still waiting on, which has got none.
OneReplyPerRequest ==
  \A r \in Requesters :
    RepliesReceived(r) = RequestsAccepted(r) - (IF gPc[r] = "recvReply" THEN 1 ELSE 0)

\* A requester leaves its send and its receive only by receiving its reply.
ProceedsOnlyOnReply ==
  \A r \in Requesters :
    (gPc[r] \in {"send", "recvReply"} /\ gPc'[r] \notin {"send", "recvReply"})
      => /\ gPc[r] = "recvReply" /\ gPc'[r] = "attach"
         /\ RepliesReceived(r)' = RepliesReceived(r) + 1
         /\ \E s \in Subprocs : wReq[s] = r /\ wPc[s] = "reply" /\ gThread'[r] = wThread[s]

\* The thread a requester received was cloned for its request, in the
\* subprocess it asked.
ReceivedOwnThread ==
  \A r \in Requesters :
    gPc[r] = "attach" =>
      /\ gThread[r] # NoThread
      /\ thReq[gThread[r]] = r
      /\ thSub[gThread[r]] = gS[r]
      /\ \A q \in Requesters \ {r} : gPc[q] = "attach" => gThread[q] # gThread[r]

Tracing == {"cont", "setup", "detach"}

\* No attach of a thread that has a tracer and no ptrace request by an OS
\* thread that is not the tracer: the kernel refuses both, and the callers
\* panic.
OnlyTracerControls == panicked = ""

\* A thread is traced by a requester only after the requester received it.
AttachAfterReceive ==
  \A c \in Contexts, th \in TrThreads :
    (trTracer[th] # NoOS /\ trBy[th] = c) => (trPc[c] \in Tracing /\ trGot[c] = th)

\* Between attach and detach the requester is locked to the OS thread
\* that traces its thread.
PinnedWhileTracing ==
  \A c \in Contexts :
    trPc[c] \in Tracing => (trLocked[c] /\ trTracer[trGot[c]] = trOS[c])

\* The requester stays on its OS thread from LockOSThread to the return.
StaysOnOSThread ==
  \A c \in Contexts :
    trPc[c] \in Tracing \cup {"attach", "return"} => trOS'[c] = trOS[c]

\* The syscall thread has no tracer while the worker waits for a request.
SyscallThreadDetachedWhenIdle ==
  trWPc = "recv" => trTracer[SyscallThread] = NoOS

\* A thread is sent on the reply channel without a tracer.
DetachedBeforeReply == tracer_reply => trTracer[trWNew] = NoOS

\* C20: a traced thread is controlled only by its one tracer: no attach
\* or ptrace request is refused, the worker sends a cloned thread only after
\* detaching it, a requester traces a thread only after receiving it, it stays
\* locked to the tracing OS thread from attach to detach, and the syscall
\* thread has no tracer while the worker handles no request.
C20_OneTracerHandOver ==
  /\ [](OnlyTracerControls /\ AttachAfterReceive /\ PinnedWhileTracing
          /\ SyscallThreadDetachedWhenIdle)
  /\ [][DetachedBeforeReply /\ StaysOnOSThread]_vars

\* Two requesters trace their threads on different OS threads while the
\* worker, moved to another OS thread, waits for the next request.
C20_Witness ==
  /\ trPc[1] = "setup" /\ trPc[2] = "cont"
  /\ trGot[1] # trGot[2]
  /\ trOS[1] # trOS[2]
  /\ trWPc = "recv" /\ trOS[TrWorker] \notin {1, trOS[1], trOS[2]}
  /\ panicked = ""

\* The ptrace requests of one call of thread.syscall are in the order of
\* the code: one setRegs first, then PTRACE_CONT again after every stop
\* whose signal is not SIGTRAP, and getRegs last, right after the SIGTRAP stop.
SyscallRequestsInOrder ==
  LET n == Len(sysTrace)
  IN  n > 0 =>
        /\ sysTrace[1].op = "setRegs"
        /\ \A i \in 2..n :
             /\ sysTrace[i].op # "setRegs"
             /\ sysTrace[i].op = "getRegs" =>
                  (i = n /\ sysTrace[i - 1] = [op |-> "cont", sig |-> SIGTRAP])
             /\ (sysTrace[i].op = "cont" /\ i < n) =>
                  sysTrace[i + 1].op = IF sysTrace[i].sig = SIGTRAP THEN "getRegs" ELSE "cont"

\* A call of thread.syscall returns a value only with getRegs, and the value
\* is decoded from the registers the traced thread had at the SIGTRAP stop.
ReturnsAfterTrapStop ==
  sysOutcomes' # sysOutcomes /\ sysOutcomes' # <<>> =>
    /\ sysTrace[Len(sysTrace)] = [op |-> "cont", sig |-> SIGTRAP]
    /\ sysTrace'[Len(sysTrace')].op = "getRegs"
    /\ sysOutcomes'[Len(sysOutcomes')] = syscallReturnValue(traceeRegs)

\* A stop with another signal leaves the registers as they are.
OtherStopKeepsRegisters ==
  (sysPc = "cont" /\ sysPc' = "cont") => (traceeRegs' = traceeRegs /\ sysRegs' = sysRegs)

\* C21: thread.syscall writes the registers once, resumes the traced thread
\* until wait returns exactly SIGTRAP, resumes again without writing the
\* registers after every other stop, and reads the registers and decodes the
\* return value only after the SIGTRAP stop.
C21_SyscallCycleOrder ==
  /\ []SyscallRequestsInOrder
  /\ [][ReturnsAfterTrapStop /\ OtherStopKeepsRegisters]_vars

\* A call that saw a trap stop with a trap cause, was resumed, and read the
\* registers after the SIGTRAP stop.
C21_Witness ==
  sysTrace = <<[op |-> "setRegs", sig |-> 0], [op |-> "cont", sig |-> SIGTRAP + 256],
               [op |-> "cont", sig |-> SIGTRAP], [op |-> "getRegs", sig |-> 0]>>

\* What one turn of the loop of wait(stopped) does with what Wait4 reported,
\* a trap stop apart.
WaitStoppedTurn(res, status) ==
  /\ waitAgain(res) => (waitPc' = "wait4" /\ panicked' = "")
  /\ res = "otherTid" => panicked' # ""
  /\ (res = "ok" /\ status.kind # "stopped") => panicked' # ""
  /\ (res = "ok" /\ status.kind = "stopped" /\ status.sig = 0) =>
       (waitPc' = "wait4" /\ panicked' = "")
  /\ (res = "ok" /\ status.kind = "stopped" /\ status.sig \notin {0, SIGTRAP}) =>
       (waitPc' = "returned" /\ waitRet' = status.sig)

\* wait(stopped) never returns 0.
WaitNeverReturnsZero ==
  (waitPc = "returned" /\ waitOutcome = "stopped") => waitRet # 0

\* attach goes on only with SIGSTOP.
AttachAcceptsOnlySigstop ==
  attach_return => (panicked' = "" <=> waitRet = SIGSTOP)

\* wait(stopped) returns SIGTRAP with the trap cause for the trap stops in
\* Causes.
TrapStopReturnsCause(Causes) ==
  \A res \in Wait4Results, status \in WaitStatuses :
    (/\ wait_wait4(res, status)
     /\ waitOutcome = "stopped"
     /\ res = "ok" /\ status.kind = "stopped" /\ status.sig = SIGTRAP
     /\ status.cause \in Causes) =>
      (waitPc' = "returned" /\ waitRet' = SIGTRAP + status.cause * 256)

WaitStoppedOtherwise ==
  \A res \in Wait4Results, status \in WaitStatuses :
    (wait_wait4(res, status) /\ waitOutcome = "stopped") => WaitStoppedTurn(res, status)

\* C22 as stated: wait(stopped) never returns 0, waits again after EINTR,
\* EAGAIN and a stop with signal 0, panics on a status that is not a stop and
\* on another thread id, returns SIGTRAP + cause * 256 for every trap stop and
\* the stop signal otherwise; attach panics unless wait returned SIGSTOP.
C22_WaitStoppedResult ==
  /\ []WaitNeverReturnsZero
  /\ [][WaitStoppedOtherwise /\ AttachAcceptsOnlySigstop
         /\ TrapStopReturnsCause({0, PTRACE_EVENT_CLONE, PTRACE_EVENT_EXIT})]_vars

\* C22, amended: as above, but SIGTRAP + cause * 256 is returned for the
\* trap stops whose cause is not PTRACE_EVENT_EXIT; at an exit event wait
\* goes to unexpectedStubExit and does not return.
C22_WaitStoppedResultButExit ==
  /\ []WaitNeverReturnsZero
  /\ [][WaitStoppedOtherwise /\ AttachAcceptsOnlySigstop
         /\ TrapStopReturnsCause({0, PTRACE_EVENT_CLONE})]_vars
  /\ [][waitPc = "exit" => waitPc' \in {"exit", "killed"}]_vars

\* attach went on after wait(stopped) returned SIGSTOP, and a later
\* wait(stopped) waited again once and returned a trap with its cause.
C22_Witness ==
  /\ waitPc = "returned"
  /\ waitOutcome = "stopped"
  /\ waitCaller = "other"
  /\ waitLog = <<"init">>
  /\ waitRetries = 1
  /\ waitRet = SIGTRAP + PTRACE_EVENT_CLONE * 256

\* The instructions of a pass of __export_syshandler, without their values.
StubOps == [i \in DOMAIN stubTrace |-> stubTrace[i].op]

\* The value msg->interrupt had when the stub compared it with 0.
StubInterruptRead == stubTrace[2].val

\* The instructions of a finished pass, by the event type __syshandler left
\* and the value of msg->interrupt the stub read.
StubPathTaken ==
  (stubPc = "idle" /\ stubTrace # <<>>) =>
    /\ stubRip = stubRetAddr
    /\ IF stubTypeIn = "Syscall"
         THEN /\ StubOps = <<"cmpType", "syscall", "jmp">>
              /\ stubTrace[2].val = SentinelSysno
         ELSE IF StubInterruptRead # 0
           THEN StubOps = <<"cmpType", "cmpInterrupt", "movl", "fault", "jmp">>
           ELSE /\ StubOps = <<"cmpType", "cmpInterrupt", "jmp">>
                /\ stubType = stubTypeIn

\* The trap of the second path is triggered with the event type Interrupt.
StubFaultsAsInterrupt == stubPc = "fault" => stubType = "Interrupt"

\* C23: after __syshandler returned the stub takes one of three paths.
\* With the event type Syscall: one syscall instruction with eax = 0xffff,
\* then the jump through msg->ret_addr, msg->interrupt not read.  Otherwise
\* with msg->interrupt # 0: the event type is set to Interrupt and the trap
\* is triggered.  Otherwise: the jump through msg->ret_addr with the event
\* type as it was.
C23_StubThreePaths == StubPathTaken /\ StubFaultsAsInterrupt

\* A second pass, with the event type Syscall, ended with the jump to the
\* return address 2 while msg->interrupt was set.
C23_Witness ==
  /\ stubPc = "idle"
  /\ stubCalls = 2
  /\ stubTypeIn = "Syscall"
  /\ stubInterrupt = 1
  /\ stubTrace # <<>>
  /\ stubRip = 2

\* A step that moves s into the available set of the pool.
HandedBack(s) == s \notin available /\ s \in available'

\* No subprocess is held by two callers of newSubprocess at once.
NeverHandedOutTwice == \A s \in Subprocs : holders[s] <= 1

\* A subprocess is handed back only when the caller that held it has
\* released it and nobody was handed it since.
HandedBackOncePerRelease == \A s \in Subprocs : HandedBack(s) => holders[s] = 0

\* C24: a subprocess is handed back to the pool at most once for each call of
\* Release and is never handed out to two callers of newSubprocess at once,
\* whatever the interleaving of the calls of unregisterContext and of the
\* goroutine of Release.
C24_HandedBackOnce ==
  []NeverHandedOutTwice /\ [][HandedBackOncePerRelease]_vars

\* The mutexes g holds.
HoldsMu(g) == lkMu = g
HoldsContextMu(g) == \E c \in Contexts : lkCMu[c] = g

\* s.mu is taken before c.mu: whoever holds a context mutex holds the
\* subprocess mutex, and nobody takes the subprocess mutex while holding a
\* context mutex.
SubprocessMuBeforeContextMu ==
  \A g \in LkGoroutines : HoldsContextMu(g) => HoldsMu(g)

\* Whoever is about to request s.syscallThreadMu holds neither s.mu nor a
\* context mutex.
NoMuWhenSyscallThreadMuRequested ==
  \A g \in LkGoroutines :
    (lkPc[g] \in {"syscall", "lock"} \/ lkStMu = g) => (~HoldsMu(g) /\ ~HoldsContextMu(g))

\* The worker sends the reply holding s.syscallThreadMu, and its requester
\* is at the receive.
RequesterWaitsForReply ==
  lkPc[LkWorker] = "reply" => (lkStMu = LkWorker /\ lkPc[lkReq] = "recvReply")

\* A goroutine is inside an operation.
Busy(g) == lkPc[g] # (IF g = LkWorker THEN "recv" ELSE "idle")

\* The next step of g inside its operation.
StepOf(g) ==
  \/ g = LkUnmap /\ (\/ lk_Unmap_lock
                      \/ \E c \in Contexts : lk_Unmap_lockContext(c)
                      \/ \E hit \in BOOLEAN : lk_Unmap_unlockContext(hit)
                      \/ lk_Unmap_unlock)
  \/ g \in {LkUnmap, LkMapFile} /\ (lk_syscall_lock(g) \/ lk_syscall_unlock(g))
  \/ \E c \in Contexts :
       g = LkUnregister(c) /\ (lk_unregisterContext_lock(c) \/ lk_unregisterContext_unlock(c))
  \/ g \in LkRequesters /\ (\/ lk_worker_receive(g)
                              \/ (lkReq = g /\ lk_worker_reply)
                              \/ lk_request_return(g))
  \/ g = LkWorker /\ (lk_worker_lock \/ lk_worker_reply \/ lk_worker_unlock)

\* The goroutines g waits for: the holder of the mutex it requests, the
\* worker for a requester whose send or receive is not matched, the
\* requester for the worker whose reply is not matched.
WaitsOn(g) ==
  IF lkPc[g] = "lockMu" THEN {lkMu} \ {NoHolder}
  ELSE IF lkPc[g] = "range"
    THEN IF \E c \in lkTodo : lkCMu[c] # NoHolder
           THEN {lkCMu[c] : c \in lkTodo} \ {NoHolder} ELSE {}
  ELSE IF lkPc[g] \in {"syscall", "lock"} THEN {lkStMu} \ {NoHolder}
  ELSE IF lkPc[g] = "send" THEN (IF lkPc[LkWorker] = "recv" THEN {} ELSE {LkWorker})
  ELSE IF lkPc[g] = "recvReply"
    THEN (IF lkPc[LkWorker] = "reply" /\ lkReq = g THEN {} ELSE {LkWorker})
  ELSE IF lkPc[g] = "reply" THEN (IF lkPc[lkReq] = "recvReply" THEN {} ELSE {lkReq})
  ELSE {}

\* The goroutines g waits for, directly or through others.
RECURSIVE WaitsOnThrough(_, _)
WaitsOnThrough(S, n) ==
  IF n = 0 THEN S
  ELSE WaitsOnThrough(S \cup UNION {WaitsOn(h) : h \in S}, n - 1)

\* A goroutine inside an operation can take its next step unless it waits
\* for another goroutine; that one is inside an operation too, and no
\* goroutine waits for itself through others.
NoCircularWait ==
  \A g \in LkGoroutines :
    Busy(g) =>
      /\ (WaitsOn(g) = {}) <=> ENABLED StepOf(g)
      /\ \A h \in WaitsOn(g) : Busy(h)
      /\ g \notin WaitsOnThrough(WaitsOn(g), Cardinality(LkGoroutines))

\* C25: no interleaving of Unmap, MapFile, unregisterContext, newThread,
\* getSysmsgThread and the worker blocks for ever: s.mu is taken before c.mu,
\* both are released before s.syscallThreadMu is requested, the requester is
\* at the receive when the worker sends the reply, and no goroutines wait
\* for each other in a circle.
C25_NoDeadlock ==
  /\ SubprocessMuBeforeContextMu
  /\ NoMuWhenSyscallThreadMuRequested
  /\ RequesterWaitsForReply
  /\ NoCircularWait

\* Unmap holds s.mu and a context mutex while a call of unregisterContext
\* waits for s.mu, MapFile holds s.syscallThreadMu, and the worker waits for
\* it with a request whose requester waits for the reply.
C25_Witness ==
  /\ lkPc[LkUnmap] = "context"
  /\ lkStMu = LkMapFile
  /\ lkPc[LkWorker] = "lock"
  /\ lkPc[lkReq] = "recvReply"
  /\ \E r \in LkRequesters : lkPc[r] = "send"
  /\ \E c \in Contexts : lkPc[LkUnregister(c)] = "lockMu"
  /\ lkContexts # Contexts

====
